---- MODULE Spec2Model ----
(***************************************************************************)
(* Model Invocation & Telemetry Layer of isu-digital-lib.                  *)
(*                                                                         *)
(* One client instance (an OpenAIInterface or a GeminiInterface of         *)
(* src/src/models) serves generate_response and batch_generate calls and   *)
(* reports each resolved call to a MetricsTracker and a CostTracker.       *)
(*                                                                         *)
(* Time is counted in ticks of half a second, so min_request_interval      *)
(* (0.5 s) is 1 tick and base_retry_delay (1 s) is 2 ticks.                *)
(*                                                                         *)
(* Both clients write `await time.sleep(d)`.  time.sleep is the blocking   *)
(* standard-library sleep: it blocks for d seconds and returns None, and   *)
(* `await None` then raises TypeError ("object NoneType can't be used in   *)
(* 'await' expression").  Every sleep of the clients is therefore modelled *)
(* as: the clock advances by d, then TypeError is raised at that line.     *)
(*                                                                         *)
(* The components around the client are exercised on their own, each by a  *)
(* specification of its own over its own variables: a CostTracker          *)
(* (CostSpec), the chunk_text functions (ChunkSpec), the vector analyzers  *)
(* with their store (AnalyzerSpec), the trimming of a retrieved context to *)
(* the token budget (TrimSpec) and a MetricsTracker (StatSpec).  Further   *)
(* specifications cover the local counters with reset_metrics             *)
(* (CounterSpec), two coroutines sharing one client (ConcSpec), the reset  *)
(* of the trackers (ResetSpec), their JSON files and the performance       *)
(* summary (PersistSpec), the assembly of a cross-paper context            *)
(* (AssembleSpec) and the PerformanceAnalyzer (PerfSpec).                  *)
(***************************************************************************)
EXTENDS Integers, Sequences, FiniteSets, TLC

VARIABLES
    kind,               \* class of the client instance: "openai" or "gemini"
    now,                \* time.time(), in ticks
    last_request_time,  \* self.last_request_time
    pc,                 \* position of the running call
    mode,               \* entry point in progress: "none", "single", "batch"
    prompts,            \* batch_generate: the prompts argument
    responses,          \* batch_generate: the responses list
    prompt,             \* generate_response: the prompt argument
    start_time,         \* generate_response: start_time
    attempts,           \* generate_response: attempts (OpenAI)
    exc,                \* str(e) of the exception being handled
    response,           \* what the provider call returned
    prompt_tokens,      \* generate_response: prompt_tokens (Gemini)
    model_response,     \* generate_response: model_response
    metrics,            \* self.metrics, the local counters
    metrics_log,        \* MetricsTracker.metrics
    cost_log,           \* CostTracker.usage_records
    trail,              \* observation: what the running call did so far
    history,            \* observation: one entry per resolved call
    request_times,      \* observation: start time of every provider request
    batch_out           \* observation: how the last batch_generate ended

\* A CostTracker on its own
VARIABLES
    usage_records,      \* CostTracker.usage_records
    cost_result,        \* the last call of calculate_cost and what it returned
    usage_summary,      \* what get_usage_summary last returned for this log
    usage_seen          \* observation: whether the tracker was reset, and the
                        \* add_usage_record calls that make up the log since

\* A chunk_text call on its own
VARIABLES
    chunker,            \* which chunk_text runs
    words,              \* len(words) of the text
    chunk_size,         \* chunk_size
    overlap,            \* overlap
    start,              \* the loop index (start, or i)
    chunks,             \* chunks
    chunk_pc            \* position of the call

\* A vector analyzer on its own
VARIABLES
    analyzer,           \* class of the analyzer: "single" or "context"
    collection,         \* self.collection: the chunks in the store
    an_pc,              \* position of the running analysis
    analyses,           \* observation: analyses started on this analyzer
    to_add,             \* the ids of the chunks still to be added
    question,           \* number of questions processed in the loop
    results,            \* results
    an_out              \* observation: how the last analysis ended

\* A context trimming step on its own
VARIABLES
    trimmer,            \* which script trims
    context,            \* the retrieved text handed to the step
    max_tokens,         \* the token budget
    trim_words,         \* words: the words left in the trimming loop
    trimmed,            \* the text put into the prompt
    trim_pc             \* position of the step

\* A MetricsTracker on its own
VARIABLES
    tracker_metrics,    \* MetricsTracker.metrics
    stats,              \* what the statistics getters return for this log
    metrics_seen        \* observation: whether the tracker was reset, and the
                        \* add_metric calls that make up the log since

\* Several generate_response coroutines of one client on one event loop
VARIABLES
    tasks,              \* per coroutine: its position and the calls it has made
    loop_time,          \* time.time() as the event loop's coroutines read it
    shared_last_request_time,   \* self.last_request_time of the shared client
    issued,             \* start times of the provider requests, in issue order
    tracked             \* how many calls reached _track_metrics

\* The trackers' JSON files
VARIABLES
    metrics_file,       \* performance_metrics.json in the metrics output_dir
    records_file,       \* cost_records.json in the costs output_dir
    saved,              \* observation: the logs as they were when last saved
    io_out              \* observation: the last summary, save or load and
                        \* whether it raised

\* The assembly of a cross-paper context on its own
VARIABLES
    query_results,      \* the ranked chunks the store returned for a question
    next_result,        \* position of the grouping loop in the results
    paper_contexts,     \* paper_contexts, in the insertion order of the dict
    combined_context,   \* combined_context, as its lines
    asm_pc              \* position of the assembly

\* A PerformanceAnalyzer over the trackers
VARIABLES
    analysis_out        \* observation: the last analysis called, over how many
                        \* models, and how it ended

client_vars == <<kind, now, last_request_time, pc, mode, prompts, responses,
                 prompt, start_time, attempts, exc, response, prompt_tokens,
                 model_response, metrics, metrics_log, cost_log, trail,
                 history, request_times, batch_out>>

cost_vars == <<usage_records, cost_result, usage_summary, usage_seen>>

chunk_vars == <<chunker, words, chunk_size, overlap, start, chunks, chunk_pc>>

an_vars == <<analyzer, collection, an_pc, analyses, to_add, question, results,
             an_out>>

trim_vars == <<trimmer, context, max_tokens, trim_words, trimmed, trim_pc>>

stat_vars == <<tracker_metrics, stats, metrics_seen>>

\* the state outside the Model Client
conc_vars == <<tasks, loop_time, shared_last_request_time, issued, tracked>>
persist_vars == <<metrics_file, records_file, saved, io_out>>
asm_vars == <<query_results, next_result, paper_contexts, combined_context, asm_pc>>
perf_vars == <<analysis_out>>
rest_vars == <<cost_vars, chunk_vars, an_vars, trim_vars, stat_vars, conc_vars, persist_vars, asm_vars, perf_vars>>

vars == <<client_vars, rest_vars>>

----------------------------------------------------------------------------
(* Bounds of the model *)

\* generate_response calls started in one behaviour
MaxCalls == 2
\* longest prompts list handed to batch_generate
MaxBatch == 2
\* reading of the clock at construction; the clock counts from 1970, so any
\* reading is at least min_request_interval past last_request_time = 0
StartClock == 2

(* Program constants, in ticks *)

\* self.min_request_interval = 0.5 seconds
MinRequestInterval == 1
\* self.retry_attempts = 3
RetryAttempts == 3
\* self.base_retry_delay = 1 second
BaseRetryDelay == 2

----------------------------------------------------------------------------
(* Values *)

\* Python's None, for the Optional[str] fields
None == "<None>"

\* bool(s) of an Optional[str]: None and '' are falsy
Truthy(s) == s # None /\ s # ""

Kinds == {"openai", "gemini"}
Prompts == {"p1", "p2"}
\* the prompt of a direct generate_response call; the client only passes it on
SinglePrompts == {"p1"}
Contents == {"", "answer"}
Messages == {"", "timeout"}

\* str(e) of the TypeError raised by `await time.sleep(d)`
AwaitNoneError == "object NoneType can't be used in 'await' expression"
\* str(e) of the AttributeError raised by response.usage.prompt_tokens when
\* the provider's response carries no usage
NoUsageError == "'NoneType' object has no attribute 'prompt_tokens'"

ZeroUsage == [prompt_tokens |-> 0, completion_tokens |-> 0, total_tokens |-> 0]

\* the three counts of response.usage, as the provider reports them: once
\* adding up, once with a total that is not the sum of the other two
Usages ==
    { [prompt_tokens |-> 1, completion_tokens |-> 1, total_tokens |-> 2],
      [prompt_tokens |-> 1, completion_tokens |-> 1, total_tokens |-> 3] }

\* the tokenizer's count_tokens(text).total_tokens, an integer
TokenCounts == {1}

\* time, in ticks, a provider request takes
CallTicks == {0, 1}

\* time, in ticks, the caller lets pass before a call
IdleTicks == {0, 1}

\* What one provider request can do: raise (kind "error", str(e) = message),
\* return a complete response (kind "ok"), or return a response whose usage
\* is absent (kind "degraded"; the OpenAI API types usage as optional).
ProviderOutcomes ==
    { [kind |-> "error", content |-> "", usage |-> ZeroUsage, message |-> m] :
        m \in Messages }
    \cup
    { [kind |-> "ok", content |-> c, usage |-> u, message |-> ""] :
        c \in Contents, u \in Usages }
    \cup
    { [kind |-> "degraded", content |-> c, usage |-> ZeroUsage, message |-> ""] :
        c \in Contents }

NoOutcome == [kind |-> "none", content |-> "", usage |-> ZeroUsage, message |-> ""]

\* ModelResponse(content, usage, latency, timestamp, ..., error); `prompt`
\* tags the response with the prompt it answers (not a field of the class)
ModelResponse(c, u, lat, ts, err, p) ==
    [content |-> c, usage |-> u, latency |-> lat, timestamp |-> ts,
     error |-> err, prompt |-> p]

NoResponse == ModelResponse(None, ZeroUsage, 0, 0, None, None)

InitMetrics ==
    [total_tokens |-> 0, prompt_tokens |-> 0, completion_tokens |-> 0,
     total_requests |-> 0, successful_requests |-> 0, total_errors |-> 0]

NoTrail == [outcomes |-> <<>>, waits |-> <<>>, rate_waits |-> 0]

NoBatch == [state |-> "none", prompts |-> <<>>, responses |-> <<>>]

\* all non-empty sequences over S of length at most n
SeqsUpTo(S, n) == UNION { [1..k -> S] : k \in 1..n }

Pow2(n) == IF n <= 0 THEN 1 ELSE 2 ^ n

\* retry_delay = self.base_retry_delay * (2 ** (attempts - 1))
RetryDelay(a) == BaseRetryDelay * Pow2(a - 1)

\* f"Final error after {attempts} attempts: {str(e)}"
FinalError(a, msg) ==
    "Final error after " \o ToString(a) \o " attempts: " \o msg

\* GeminiInterface._count_tokens: len() of the integer total_tokens raises
\* TypeError, which the method catches, returning 0
CountTokens(total) == 0

----------------------------------------------------------------------------
(* Initial state: a client right after construction, trackers empty *)

\* CostTracker.__init__: self.usage_records = []
\* no usage summary read yet
NoSummary == [read |-> FALSE, total_cost |-> 0, total_tokens |-> 0,
              total_requests |-> 0, total_errors |-> 0,
              costs_by_model |-> <<>>]

\* nothing handed to a tracker yet
NothingSeen == [reset |-> FALSE, added |-> <<>>]

CostStart ==
    /\ usage_records = <<>>
    /\ cost_result = [model |-> None, prompt_tokens |-> 0,
                      completion_tokens |-> 0, cost |-> 0]
    /\ usage_summary = NoSummary
    /\ usage_seen = NothingSeen

\* the state outside the Model Client, as constructed
ChunkStart ==
    /\ chunker = None
    /\ words = 0
    /\ chunk_size = 0
    /\ overlap = 0
    /\ start = 0
    /\ chunks = <<>>
    /\ chunk_pc = "idle"

NoAnalysis == [kind |-> "none", results |-> <<>>]

AnalyzerStart ==
    /\ collection = {}
    /\ an_pc = "idle"
    /\ analyses = 0
    /\ to_add = <<>>
    /\ question = 0
    /\ results = <<>>
    /\ an_out = NoAnalysis

\* the empty text: two runs of no words, no character, no full stop
NoText == [blocks |-> <<[n |-> 0, len |-> 2], [n |-> 0, len |-> 2]>>,
           chars |-> 0, period |-> 0]

TrimStart ==
    /\ trimmer = None
    /\ context = NoText
    /\ max_tokens = 0
    /\ trim_words = 0
    /\ trimmed = NoText
    /\ trim_pc = "idle"

\* {}
EmptyDict == [g \in {} |-> 0]

NoStats == [group_by |-> None, read |-> FALSE, raised |-> FALSE,
            success_rate |-> EmptyDict, average_response_time |-> EmptyDict,
            token_usage_stats |-> EmptyDict, error_distribution |-> EmptyDict]

StatStart ==
    /\ tracker_metrics = <<>>
    /\ stats = NoStats
    /\ metrics_seen = NothingSeen

\* generate_response calls the coroutines make between them
MaxTaskCalls == 4

\* the two coroutines of one client that may be in flight at once
Tasks == {1, 2}

ConcStart ==
    /\ tasks = [t \in Tasks |-> [pc |-> "idle", calls |-> 0, raised |-> 0]]
    /\ loop_time = StartClock
    /\ shared_last_request_time = 0
    /\ issued = <<>>
    /\ tracked = 0

\* a file that does not exist; a written file holds a JSON document with
\* the list `items`, or, if the writer raised, text that is no document
NoFile == [exists |-> FALSE, complete |-> FALSE, items |-> <<>>]

\* no save called yet
NothingSaved == [metrics_called |-> FALSE, metrics |-> <<>>,
                 records_called |-> FALSE, records |-> <<>>]

\* no summary, save or load called yet
NoIo == [op |-> "none", raised |-> FALSE]

PersistStart ==
    /\ metrics_file = NoFile
    /\ records_file = NoFile
    /\ saved = NothingSaved
    /\ io_out = NoIo

AssembleStart ==
    /\ query_results = <<>>
    /\ next_result = 1
    /\ paper_contexts = <<>>
    /\ combined_context = <<>>
    /\ asm_pc = "idle"

\* no analysis called yet
NoAnalysisOut == [called |-> "none", models |-> 0, raised |-> FALSE,
                  result |-> "none"]

PerfStart == analysis_out = NoAnalysisOut

RestStart ==
    /\ CostStart
    /\ ChunkStart
    /\ analyzer = "single"
    /\ AnalyzerStart
    /\ TrimStart
    /\ StatStart
    /\ PerfStart
    /\ AssembleStart
    /\ PersistStart
    /\ ConcStart

ClientStart ==
    /\ now = StartClock
    /\ last_request_time = 0
    /\ pc = "idle"
    /\ mode = "none"
    /\ prompts = <<>>
    /\ responses = <<>>
    /\ prompt = None
    /\ start_time = 0
    /\ attempts = 0
    /\ exc = None
    /\ response = NoOutcome
    /\ prompt_tokens = 0
    /\ model_response = NoResponse
    /\ metrics = InitMetrics
    /\ metrics_log = <<>>
    /\ cost_log = <<>>
    /\ trail = NoTrail
    /\ history = <<>>
    /\ request_times = <<>>
    /\ batch_out = NoBatch

Init ==
    /\ kind \in Kinds
    /\ ClientStart
    /\ RestStart

\* calls started so far: the resolved ones and the running one
Started == Len(history) + (IF pc \in {"idle", "batch_loop"} THEN 0 ELSE 1)

call_vars == <<prompt, start_time, attempts, exc, response, prompt_tokens,
               model_response, trail>>
tracker_vars == <<metrics, metrics_log, cost_log>>
batch_vars == <<mode, prompts, responses, batch_out>>

\* entry of generate_response(p): start_time = time.time(); attempts = 0
Enter(p, t) ==
    /\ prompt' = p
    /\ start_time' = t
    /\ attempts' = 0
    /\ exc' = None
    /\ response' = NoOutcome
    /\ prompt_tokens' = 0
    /\ model_response' = NoResponse
    /\ trail' = NoTrail
    /\ pc' = "rate_limit"

\* The caller awaits generate_response(p), gap ticks after the client was
\* last left idle.
GenerateResponse ==
    /\ pc = "idle"
    /\ Started < MaxCalls
    /\ \E p \in SinglePrompts, gap \in IdleTicks :
        /\ now' = now + gap
        /\ Enter(p, now + gap)
    /\ mode' = "single"
    /\ UNCHANGED <<rest_vars, kind, last_request_time, prompts, responses, batch_out,
                   tracker_vars, history, request_times>>

\* The caller awaits batch_generate(ps), ps not empty: responses = []
BatchGenerate ==
    /\ pc = "idle"
    /\ \E ps \in SeqsUpTo(Prompts, MaxBatch), gap \in IdleTicks :
        /\ Started + Len(ps) <= MaxCalls
        /\ prompts' = ps
        /\ now' = now + gap
    /\ responses' = <<>>
    /\ mode' = "batch"
    /\ batch_out' = NoBatch
    /\ pc' = "batch_loop"
    /\ UNCHANGED <<rest_vars, kind, last_request_time, call_vars, tracker_vars, history,
                   request_times>>

\* batch_generate: `for prompt in prompts: response = await
\* self.generate_response(prompt, ...)`, the next prompt of the list
BatchIterate ==
    /\ pc = "batch_loop"
    /\ Len(responses) < Len(prompts)
    /\ Enter(prompts[Len(responses) + 1], now)
    /\ UNCHANGED <<rest_vars, kind, now, last_request_time, batch_vars, tracker_vars,
                   history, request_times>>

\* batch_generate: the list is exhausted, `return responses`
BatchReturn ==
    /\ pc = "batch_loop"
    /\ Len(responses) = Len(prompts)
    /\ batch_out' = [state |-> "returned", prompts |-> prompts,
                     responses |-> responses]
    /\ mode' = "none"
    /\ pc' = "idle"
    /\ UNCHANGED <<rest_vars, kind, now, last_request_time, prompts, responses, call_vars,
                   tracker_vars, history, request_times>>

\* _rate_limit, called first thing inside the try block of an attempt.
\* Too soon after the last request: time.sleep blocks for the remainder and
\* the await of its None raises TypeError before last_request_time is set.
RateLimit ==
    /\ pc = "rate_limit"
    /\ LET time_since_last_request == now - last_request_time IN
       IF time_since_last_request < MinRequestInterval
       THEN /\ now' = now + (MinRequestInterval - time_since_last_request)
            /\ exc' = AwaitNoneError
            /\ trail' = [trail EXCEPT !.rate_waits = @ + 1]
            /\ pc' = "except"
            /\ UNCHANGED last_request_time
       ELSE /\ last_request_time' = now
            /\ pc' = "request"
            /\ UNCHANGED <<now, exc, trail>>
    /\ UNCHANGED <<rest_vars, kind, batch_vars, prompt, start_time, attempts, response,
                   prompt_tokens, model_response, tracker_vars, history,
                   request_times>>

\* the outcomes a provider request of a client of class k can have: the
\* Gemini response carries no usage, its counts come from _count_tokens
OutcomesOf(k) ==
    IF k = "openai" THEN ProviderOutcomes
    ELSE { o \in ProviderOutcomes :
             /\ o.kind # "degraded"
             /\ o.kind = "ok" => o.usage = CHOOSE u \in Usages : TRUE }

\* The provider request of an attempt: client.chat.completions.create
\* (OpenAI) or, after prompt_tokens = _count_tokens(prompt),
\* model.generate_content (Gemini).  It takes d ticks and returns or raises.
ProviderCall ==
    /\ pc = "request"
    /\ \E d \in CallTicks, o \in OutcomesOf(kind) :
        /\ now' = now + d
        /\ trail' = [trail EXCEPT !.outcomes = Append(@, o)]
        /\ IF o.kind = "error"
           THEN /\ exc' = o.message
                /\ pc' = "except"
                /\ UNCHANGED response
           ELSE /\ response' = o
                /\ pc' = "build"
                /\ UNCHANGED exc
    /\ request_times' = Append(request_times, now)
    /\ prompt_tokens' = IF kind = "gemini"
                        THEN CountTokens(CHOOSE n \in TokenCounts : TRUE)
                        ELSE prompt_tokens
    /\ UNCHANGED <<rest_vars, kind, last_request_time, batch_vars, prompt, start_time,
                   attempts, model_response, tracker_vars, history>>

\* OpenAI, after create returned: latency, then the ModelResponse built from
\* response.choices[0].message.content and response.usage.*, then break.
\* All of it is inside the try block: a response without usage raises
\* AttributeError into the except clause of the retry loop.
OpenAIBuild ==
    /\ pc = "build"
    /\ kind = "openai"
    /\ IF response.kind = "degraded"
       THEN /\ exc' = NoUsageError
            /\ pc' = "except"
            /\ UNCHANGED model_response
       ELSE /\ model_response' =
                 ModelResponse(response.content, response.usage,
                               now - start_time, now, None, prompt)
            /\ pc' = "track"
            /\ UNCHANGED exc
    /\ UNCHANGED <<rest_vars, kind, now, last_request_time, batch_vars, prompt, start_time,
                   attempts, response, prompt_tokens, tracker_vars, trail,
                   history, request_times>>

\* Gemini, after generate_content returned: completion_tokens =
\* _count_tokens(response.text), total_tokens = prompt_tokens +
\* completion_tokens, latency, then the ModelResponse.
GeminiBuild ==
    /\ pc = "build"
    /\ kind = "gemini"
    /\ LET completion_tokens == CountTokens(CHOOSE n \in TokenCounts : TRUE)
           total_tokens == prompt_tokens + completion_tokens
       IN model_response' =
            ModelResponse(response.content,
                          [prompt_tokens |-> prompt_tokens,
                           completion_tokens |-> completion_tokens,
                           total_tokens |-> total_tokens],
                          now - start_time, now, None, prompt)
    /\ pc' = "track"
    /\ UNCHANGED <<rest_vars, kind, now, last_request_time, batch_vars, prompt, start_time,
                   attempts, exc, response, prompt_tokens, tracker_vars, trail,
                   history, request_times>>

\* the ModelResponse both clients build for a failure
FailureResponse(err) ==
    ModelResponse("", ZeroUsage, now - start_time, now, err, prompt)

\* OpenAI, `except Exception as e` of the retry loop: attempts += 1; on the
\* last attempt the failure response is built and the loop condition ends
\* the loop; otherwise time.sleep(retry_delay) blocks and the await of its
\* None raises TypeError inside the handler, which leaves generate_response.
OpenAIExcept ==
    /\ pc = "except"
    /\ kind = "openai"
    /\ attempts' = attempts + 1
    /\ IF attempts + 1 = RetryAttempts
       THEN /\ model_response' = FailureResponse(FinalError(attempts + 1, exc))
            /\ pc' = "track"
            /\ UNCHANGED <<now, exc, trail>>
       ELSE /\ now' = now + RetryDelay(attempts + 1)
            /\ trail' = [trail EXCEPT
                            !.waits = Append(@, RetryDelay(attempts + 1))]
            /\ exc' = AwaitNoneError
            /\ pc' = "raised"
            /\ UNCHANGED model_response
    /\ UNCHANGED <<rest_vars, kind, last_request_time, batch_vars, prompt, start_time,
                   response, prompt_tokens, tracker_vars, history,
                   request_times>>

\* Gemini, `except Exception as e`: no loop, the failure response carries
\* error = str(e)
GeminiExcept ==
    /\ pc = "except"
    /\ kind = "gemini"
    /\ model_response' = FailureResponse(exc)
    /\ pc' = "track"
    /\ UNCHANGED <<rest_vars, kind, now, last_request_time, batch_vars, prompt, start_time,
                   attempts, exc, response, prompt_tokens, tracker_vars, trail,
                   history, request_times>>

\* len(response.content) if response.content else 0
ResponseLength(c) == IF Truthy(c) THEN Len(c) ELSE 0

\* local counters that count an error for every response
TrackLocalErrorAlways(m, r) ==
    [m EXCEPT
        !.total_requests = @ + 1,
        !.successful_requests = IF ~Truthy(r.error) THEN @ + 1 ELSE @,
        !.prompt_tokens = @ + r.usage.prompt_tokens,
        !.completion_tokens = @ + r.usage.completion_tokens,
        !.total_tokens = @ + r.usage.total_tokens,
        !.total_errors = @ + 1]

\* BaseModelInterface._track_metrics, the local counters
TrackLocal(m, r) ==
    [m EXCEPT
        !.total_requests = @ + 1,
        !.successful_requests = IF ~Truthy(r.error) THEN @ + 1 ELSE @,
        !.prompt_tokens = @ + r.usage.prompt_tokens,
        !.completion_tokens = @ + r.usage.completion_tokens,
        !.total_tokens = @ + r.usage.total_tokens,
        !.total_errors = IF Truthy(r.error) THEN @ + 1 ELSE @]

\* MetricsTracker.add_metric as _track_metrics calls it
PerformanceMetric(r, ts) ==
    [timestamp |-> ts,
     response_time |-> r.latency,
     token_count |-> r.usage.total_tokens,
     success |-> ~Truthy(r.error),
     error |-> r.error,
     response_length |-> ResponseLength(r.content)]

\* add_usage_record taking the total from the response instead of adding
\* the two counts it is given
UsageRecordCopiedTotal(r, ts) ==
    [timestamp |-> ts,
     prompt_tokens |-> r.usage.prompt_tokens,
     completion_tokens |-> r.usage.completion_tokens,
     total_tokens |-> r.usage.total_tokens,
     duration |-> r.latency,
     error |-> r.error]

\* CostTracker.add_usage_record as _track_metrics calls it
UsageRecord(r, ts) ==
    [timestamp |-> ts,
     prompt_tokens |-> r.usage.prompt_tokens,
     completion_tokens |-> r.usage.completion_tokens,
     total_tokens |-> r.usage.prompt_tokens + r.usage.completion_tokens,
     duration |-> r.latency,
     error |-> r.error]

\* what is remembered of a resolved call
Resolved(raised, r) ==
    [prompt |-> prompt, raised |-> raised, response |-> r,
     outcomes |-> trail.outcomes, waits |-> trail.waits,
     rate_waits |-> trail.rate_waits]

\* End of generate_response: self._track_metrics(model_response,
\* analysis_type); return model_response.  Under batch_generate the caller
\* is the loop, which appends the response.
TrackMetrics ==
    /\ pc = "track"
    /\ metrics' = TrackLocal(metrics, model_response)
    /\ metrics_log' = Append(metrics_log, PerformanceMetric(model_response, now))
    /\ cost_log' = Append(cost_log, UsageRecord(model_response, now))
    /\ history' = Append(history, Resolved(FALSE, model_response))
    /\ IF mode = "batch"
       THEN /\ responses' = Append(responses, model_response)
            /\ pc' = "batch_loop"
            /\ UNCHANGED mode
       ELSE /\ mode' = "none"
            /\ pc' = "idle"
            /\ UNCHANGED responses
    /\ UNCHANGED <<rest_vars, kind, now, last_request_time, prompts, batch_out, call_vars,
                   request_times>>

\* An exception leaves generate_response: nothing is tracked, nothing is
\* returned; batch_generate has no handler, so it leaves that too and the
\* responses collected so far are lost to the caller.
Unwind ==
    /\ pc = "raised"
    /\ history' = Append(history, Resolved(TRUE, NoResponse))
    /\ batch_out' = IF mode = "batch"
                    THEN [state |-> "raised", prompts |-> prompts,
                          responses |-> responses]
                    ELSE batch_out
    /\ mode' = "none"
    /\ pc' = "idle"
    /\ UNCHANGED <<rest_vars, kind, now, last_request_time, prompts, responses, call_vars,
                   tracker_vars, request_times>>

Next ==
    \/ GenerateResponse
    \/ BatchGenerate
    \/ BatchIterate
    \/ BatchReturn
    \/ RateLimit
    \/ ProviderCall
    \/ OpenAIBuild
    \/ GeminiBuild
    \/ OpenAIExcept
    \/ GeminiExcept
    \/ TrackMetrics
    \/ Unwind

Spec == Init /\ [][Next]_vars

----------------------------------------------------------------------------
(* Properties of the Model Client *)

Last(q) == q[Len(q)]

\* the resolved calls
Calls == { history[i] : i \in 1..Len(history) }

\* provider requests of a resolved call that raised
ProviderErrors(h) ==
    Cardinality({ i \in 1..Len(h.outcomes) : h.outcomes[i].kind = "error" })

\* a resolved call all of whose attempts reached the provider and got a
\* complete response or an error from it
PlainCall(h) ==
    /\ h.rate_waits = 0
    /\ Len(h.outcomes) >= 1
    /\ \A i \in 1..Len(h.outcomes) : h.outcomes[i].kind \in {"ok", "error"}

\* C1: generate_response never lets a failure escape as an exception:
\* every resolved call, whatever the provider and the rate limiter did,
\* returned a ModelResponse to its caller.
C1_AlwaysReturnsResponse ==
    \A h \in Calls : ~h.raised

\* C2: with retry_attempts = 3, an OpenAI call whose provider failed fewer
\* than 3 times does not stop there: it resolves with a success response
\* (error absent) carrying the content of the attempt that succeeded, and
\* that attempt is the last provider request of the call.
C2_SucceedsAfterFailures ==
    \A h \in Calls :
        (kind = "openai" /\ PlainCall(h) /\ ProviderErrors(h) < RetryAttempts)
        => /\ ~h.raised
           /\ Last(h.outcomes).kind = "ok"
           /\ ProviderErrors(h) = Len(h.outcomes) - 1
           /\ h.response.error = None
           /\ h.response.content = Last(h.outcomes).content

\* C3: every resolved call, success or failure, whatever its number of
\* attempts, has appended exactly one PerformanceMetric and exactly one
\* UsageRecord: both logs are as long as the list of resolved calls.
C3_OneRecordPerCall ==
    /\ Len(metrics_log) = Len(history)
    /\ Len(cost_log) = Len(history)

\* C4: an OpenAI call whose provider failed on every attempt made exactly
\* retry_attempts provider requests and returned a ModelResponse with empty
\* content, zeroed usage and an error naming the attempt count and the last
\* failure.
C4_FailedAfterMaxRetries ==
    \A h \in Calls :
        (kind = "openai" /\ PlainCall(h) /\ ProviderErrors(h) = Len(h.outcomes))
        => /\ Len(h.outcomes) = RetryAttempts
           /\ ~h.raised
           /\ h.response.content = ""
           /\ h.response.usage = ZeroUsage
           /\ h.response.error =
                FinalError(RetryAttempts, Last(h.outcomes).message)

\* C5: after the n-th failed attempt of an OpenAI call, n < retry_attempts,
\* the client waits base_retry_delay * 2^(n-1) and then starts the next
\* attempt; after the last failed attempt and after a success no time is
\* spent waiting.
C5_ExponentialBackoff ==
    [][ /\ (pc = "except" /\ kind = "openai" /\ attempts + 1 < RetryAttempts)
            => /\ now' = now + BaseRetryDelay * Pow2(attempts)
               /\ attempts' = attempts + 1
               /\ pc' = "rate_limit"
        /\ (pc = "except" /\ kind = "openai" /\ attempts + 1 = RetryAttempts)
            => now' = now
        /\ (pc = "build" /\ kind = "openai") => now' = now
      ]_vars

\* C6: once a provider request of a call has returned (with or without
\* usage), the call makes no further provider request and resolves as a
\* success.
C6_SuccessIsFinal ==
    \A h \in Calls :
        \A i \in 1..Len(h.outcomes) :
            h.outcomes[i].kind \in {"ok", "degraded"}
            => /\ i = Len(h.outcomes)
               /\ ~h.raised
               /\ ~Truthy(h.response.error)

\* consecutive provider requests of the client start at least
\* min_request_interval apart
RequestsSpaced ==
    \A i \in 2..Len(request_times) :
        request_times[i] - request_times[i - 1] >= MinRequestInterval

\* C7: consecutive provider requests of one client start at least
\* min_request_interval apart, and an attempt that reaches the rate limiter
\* waits if it must and then issues its request, no sooner than
\* min_request_interval after the last one.
C7_RateLimited ==
    /\ []RequestsSpaced
    /\ [][ pc = "rate_limit"
            => /\ pc' = "request"
               /\ now' >= last_request_time + MinRequestInterval ]_vars

\* C8: the Gemini client retries like the OpenAI client: a Gemini call
\* whose provider failed fewer than retry_attempts times resolves with a
\* success response.
C8_GeminiRetries ==
    \A h \in Calls :
        (kind = "gemini" /\ PlainCall(h) /\ ProviderErrors(h) < RetryAttempts)
        => /\ ~h.raised
           /\ Last(h.outcomes).kind = "ok"
           /\ h.response.error = None

\* C9: a batch_generate call that has ended returned one response per
\* prompt, the i-th answering the i-th prompt, and each call started only
\* after the one before it had resolved.
C9_BatchInOrder ==
    batch_out.state # "none"
    => /\ batch_out.state = "returned"
       /\ Len(batch_out.responses) = Len(batch_out.prompts)
       /\ \A i \in 1..Len(batch_out.responses) :
            batch_out.responses[i].prompt = batch_out.prompts[i]
       /\ \A i \in 2..Len(batch_out.responses) :
            batch_out.responses[i - 1].timestamp
                <= batch_out.responses[i].timestamp
                   - batch_out.responses[i].latency

\* C10: a call that returned because its provider request failed is
\* recorded as a failure: the response's error is populated, its metric has
\* success = false and the error, its usage record has the error,
\* including when the failure's message is empty.
C10_FailureRecorded ==
    (/\ Len(history) >= 1
     /\ ~Last(history).raised
     /\ Len(Last(history).outcomes) >= 1
     /\ Last(Last(history).outcomes).kind = "error")
    => /\ Truthy(Last(history).response.error)
       /\ Last(metrics_log).success = FALSE
       /\ Truthy(Last(metrics_log).error)
       /\ Last(cost_log).error # None

\* the calls that returned a ModelResponse
Returned == { h \in Calls : ~h.raised }

\* C11: every ModelResponse returned by generate_response has exactly one
\* of: non-empty content, an error; empty content with no error is never
\* returned.
C11_ContentXorError ==
    \A h \in Returned :
        (h.response.content # "") # (h.response.error # None)

AddsUp(u) == u.total_tokens = u.prompt_tokens + u.completion_tokens

\* the usage the provider reported for the response a call returned adds
\* up (the Gemini client takes no usage from the provider)
ReportedAddsUp(h) ==
    kind = "openai" /\ Len(h.outcomes) >= 1 /\ Last(h.outcomes).kind = "ok"
    => AddsUp(Last(h.outcomes).usage)

----------------------------------------------------------------------------
(* CostTracker (src/src/evaluation/cost_tracking.py)                        *)
(*                                                                         *)
(* Prices are kept in units of 10^-5 USD per 1000 tokens and costs in      *)
(* units of 10^-8 USD, so that (tokens / 1000) * price is exact.           *)

\* records in the log of a tracker exercised on its own
MaxRecords == 2

\* CostTracker.MODEL_COSTS
MODEL_COSTS ==
    [m \in {"gpt-4", "gpt-4-0613", "gpt-4-32k", "gpt-3.5-turbo",
            "gpt-3.5-turbo-16k", "gemini-pro", "gemini-1.5-pro",
            "claude-3-opus", "claude-3-sonnet"} |->
        CASE m = "gpt-4"             -> [input |-> 3000, output |-> 6000]
          [] m = "gpt-4-0613"        -> [input |-> 3000, output |-> 6000]
          [] m = "gpt-4-32k"         -> [input |-> 6000, output |-> 12000]
          [] m = "gpt-3.5-turbo"     -> [input |-> 150, output |-> 200]
          [] m = "gpt-3.5-turbo-16k" -> [input |-> 300, output |-> 400]
          [] m = "gemini-pro"        -> [input |-> 25, output |-> 50]
          [] m = "gemini-1.5-pro"    -> [input |-> 50, output |-> 100]
          [] m = "claude-3-opus"     -> [input |-> 1500, output |-> 7500]
          [] m = "claude-3-sonnet"   -> [input |-> 300, output |-> 1500]]

\* model names handed to the tracker: two with a price, one without
CostModels == {"gpt-4", "gemini-1.5-pro", "gpt-4-turbo-preview"}

\* token counts handed to the tracker
CostTokens == {0, 1500}

\* a calculate_cost that subtracts the output cost
CalculateCostSubtracting(model, prompt_toks, completion_toks) ==
    IF model \notin DOMAIN MODEL_COSTS
    THEN 0
    ELSE prompt_toks * MODEL_COSTS[model].input
         - completion_toks * MODEL_COSTS[model].output

\* CostTracker.calculate_cost
CalculateCost(model, prompt_toks, completion_toks) ==
    IF model \notin DOMAIN MODEL_COSTS
    THEN 0
    ELSE LET costs == MODEL_COSTS[model]
             input_cost == prompt_toks * costs.input
             output_cost == completion_toks * costs.output
         IN input_cost + output_cost

\* the client and the other components, untouched by a tracker on its own
not_cost_vars == <<client_vars, chunk_vars, an_vars, trim_vars, stat_vars, conc_vars, persist_vars, asm_vars, perf_vars>>

\* the caller evaluates tracker.calculate_cost(model, p, c)
CalculateCostCall ==
    /\ \E model \in CostModels, p \in CostTokens, c \in CostTokens :
        cost_result' = [model |-> model, prompt_tokens |-> p,
                        completion_tokens |-> c,
                        cost |-> CalculateCost(model, p, c)]
    /\ UNCHANGED <<usage_records, usage_summary, usage_seen, not_cost_vars>>

\* CostTracker.add_usage_record
AddUsageRecord ==
    /\ Len(usage_records) < MaxRecords
    /\ \E model \in CostModels, p \in CostTokens, c \in CostTokens,
          err \in {None, "timeout"} :
        LET total_tokens == p + c
            cost == CalculateCost(model, p, c)
        IN /\ usage_records' =
                Append(usage_records,
                       [model |-> model, prompt_tokens |-> p,
                        completion_tokens |-> c, total_tokens |-> total_tokens,
                        cost |-> cost, error |-> err])
           /\ usage_seen' = [usage_seen EXCEPT !.added =
                Append(@, [model |-> model, prompt_tokens |-> p,
                           completion_tokens |-> c, error |-> err])]
    /\ usage_summary' = NoSummary
    /\ UNCHANGED <<cost_result, not_cost_vars>>

CostInit ==
    /\ kind = "openai"
    /\ ClientStart
    /\ RestStart

CostNext ==
    \/ CalculateCostCall
    \/ AddUsageRecord

CostSpec == CostInit /\ [][CostNext]_vars

\* C13: the cost of every UsageRecord is non-negative after any sequence
\* of add_usage_record calls, a record of a model without a pricing entry
\* costs 0, and calculate_cost returns 0 for such a model and never
\* changes the record log.
C13_CostNonNegative ==
    /\ [](/\ \A i \in 1..Len(usage_records) :
               /\ usage_records[i].cost >= 0
               /\ usage_records[i].model \notin DOMAIN MODEL_COSTS
                    => usage_records[i].cost = 0
          /\ cost_result.cost >= 0
          /\ cost_result.model \notin DOMAIN MODEL_COSTS
               => cost_result.cost = 0)
    /\ [][cost_result' # cost_result => usage_records' = usage_records]_vars

\* the log holds a record of an unpriced model with tokens and cost 0 next
\* to a record with a positive cost, and calculate_cost was last asked
\* about the unpriced model and tokens
C13_Witness ==
    /\ \E i \in 1..Len(usage_records) :
        /\ usage_records[i].model = "gpt-4-turbo-preview"
        /\ usage_records[i].total_tokens > 0
        /\ usage_records[i].cost = 0
    /\ \E i \in 1..Len(usage_records) : usage_records[i].cost > 0
    /\ cost_result.model = "gpt-4-turbo-preview"
    /\ cost_result.prompt_tokens > 0

----------------------------------------------------------------------------
(* chunk_text (src/demoV1/ingest.py, src/src/analysis/vector_qa.py,         *)
(* src/src/analysis/vector_context_qa.py,                                   *)
(* src/scripts/openai_vectorized_context_window_script.py)                  *)
(*                                                                         *)
(* A text is its number of words; a chunk is the half-open range [lo, hi)  *)
(* of word indices it joins.                                               *)

\* chunks a non-advancing loop is followed for
MaxChunks == 4

\* the overlap the analyzers and the script fix in the body of chunk_text
FixedOverlap == 100

\* the script drops a chunk of more than this many tokens
ChunkTokenLimit == 2000

Chunkers == {"ingest", "analyzer", "script"}
WordCounts == {0, 1, 250, 1900}
ChunkSizes == {50, 100, 150, 1000}
Overlaps == {0, 100, 150}

Min(a, b) == IF a < b THEN a ELSE b
Max(a, b) == IF a > b THEN a ELSE b

\* words[a:b] of a list of n words, as the range of indices it selects
Slice(n, a, b) ==
    LET lo == IF a < 0 THEN Max(0, n + a) ELSE Min(n, a)
        hi == IF b < 0 THEN Max(0, n + b) ELSE Min(n, b)
    IN [lo |-> lo, hi |-> Max(lo, hi)]

\* count_tokens(chunk): the tokenizer's count for a chunk, between one and
\* three tokens a word
ChunkTokenCounts(c) == {c.hi - c.lo, 3 * (c.hi - c.lo)}

not_chunk_vars == <<client_vars, cost_vars, an_vars, trim_vars, stat_vars, conc_vars, persist_vars, asm_vars, perf_vars>>

\* chunk_text is called: ingest.chunk_text(text, chunk_size, overlap), or
\* an analyzer's / the script's chunk_text(text) with its chunk_size; the
\* range-based chunkers evaluate range(0, len(words), chunk_size - overlap)
ChunkText ==
    /\ chunk_pc = "idle"
    /\ \E c \in Chunkers, n \in WordCounts, size \in ChunkSizes,
          ov \in Overlaps :
        /\ c # "ingest" => ov = FixedOverlap
        /\ chunker' = c
        /\ words' = n
        /\ chunk_size' = size
        /\ overlap' = ov
        /\ chunk_pc' = IF c # "ingest" /\ size - ov = 0
                       THEN "raised"
                       ELSE "loop"
    /\ start' = 0
    /\ chunks' = <<>>
    /\ UNCHANGED not_chunk_vars

\* one pass of the while loop of ingest.chunk_text
IngestStep ==
    /\ chunk_pc = "loop"
    /\ chunker = "ingest"
    /\ start < words
    /\ chunk_size - overlap <= 0 => Len(chunks) < MaxChunks
    /\ LET end == start + chunk_size
       IN chunks' = Append(chunks, Slice(words, start, end))
    /\ start' = start + (chunk_size - overlap)
    /\ UNCHANGED <<chunker, words, chunk_size, overlap, chunk_pc,
                   not_chunk_vars>>

\* one pass of the for loop of an analyzer's chunk_text
AnalyzerStep ==
    /\ chunk_pc = "loop"
    /\ chunker = "analyzer"
    /\ chunk_size - overlap > 0
    /\ start < words
    /\ LET chunk == Slice(words, start, start + chunk_size)
       IN chunks' = IF chunk.hi - chunk.lo > 0
                    THEN Append(chunks, chunk)
                    ELSE chunks
    /\ start' = start + (chunk_size - overlap)
    /\ UNCHANGED <<chunker, words, chunk_size, overlap, chunk_pc,
                   not_chunk_vars>>

\* one pass of the for loop of the script's chunk_text
ScriptStep ==
    /\ chunk_pc = "loop"
    /\ chunker = "script"
    /\ chunk_size - overlap > 0
    /\ start < words
    /\ LET chunk == Slice(words, start, start + chunk_size)
       IN \E toks \in ChunkTokenCounts(chunk) :
            chunks' = IF toks > ChunkTokenLimit
                      THEN chunks
                      ELSE Append(chunks, chunk)
    /\ start' = start + (chunk_size - overlap)
    /\ UNCHANGED <<chunker, words, chunk_size, overlap, chunk_pc,
                   not_chunk_vars>>

\* the loop is over: return chunks
ChunkReturn ==
    /\ chunk_pc = "loop"
    /\ \/ chunker = "ingest" /\ ~(start < words)
       \/ chunker # "ingest" /\ chunk_size - overlap > 0 /\ ~(start < words)
       \/ chunker # "ingest" /\ chunk_size - overlap < 0
    /\ chunk_pc' = "returned"
    /\ UNCHANGED <<chunker, words, chunk_size, overlap, start, chunks,
                   not_chunk_vars>>

ChunkInit ==
    /\ kind = "openai"
    /\ ClientStart
    /\ RestStart

ChunkNext ==
    \/ ChunkText
    \/ IngestStep
    \/ AnalyzerStep
    \/ ScriptStep
    \/ ChunkReturn

ChunkSpec == ChunkInit /\ [][ChunkNext]_vars

ValidChunking == 0 <= overlap /\ overlap < chunk_size

\* C14: a chunk_text call whose (size, overlap) does not satisfy
\* 0 <= overlap < size fails with an error: it neither returns a list of
\* chunks nor keeps appending chunks without advancing.
C14_InvalidConfigFails ==
    chunk_pc # "idle" /\ ~ValidChunking =>
        /\ chunk_pc # "returned"
        /\ Len(chunks) < MaxChunks

\* the j-th chunk of a text of n words
ExpectedChunk(j, n, size, ov) ==
    [lo |-> j * (size - ov), hi |-> Min(n, j * (size - ov) + size)]

\* C15: with 0 <= overlap < size, the j-th chunk returned is the words
\* [j*(size-overlap), min(N, j*(size-overlap)+size)), so starts increase by
\* size-overlap, and every word index in [0, N) lies in a returned chunk.
C15_ChunksCoverText ==
    chunk_pc = "returned" /\ ValidChunking =>
        /\ \A j \in 1..Len(chunks) :
             chunks[j] = ExpectedChunk(j - 1, words, chunk_size, overlap)
        /\ \A w \in 0..(words - 1) :
             \E j \in 1..Len(chunks) : chunks[j].lo <= w /\ w < chunks[j].hi

\* the same for the chunkers that drop no chunk
ChunksCoverTextUnfiltered == chunker # "script" => C15_ChunksCoverText

----------------------------------------------------------------------------
(* The vector analyzers (src/src/analysis/vector_qa.py,                     *)
(* src/src/analysis/vector_context_qa.py)                                   *)
(*                                                                         *)
(* A stored chunk is its id (paper index, chunk index) together with the   *)
(* analysis that added it. The store, the embedding and the model are      *)
(* opaque: a call of theirs returns or raises.                             *)

\* analyses started on one analyzer
MaxAnalyses == 2

Analyzers == {"single", "context"}

\* len(VECTOR_QUESTIONS), and the questions of all CONTEXT_QUESTIONS
NumQuestions(a) == IF a = "single" THEN 4 ELSE 6

\* n_results of the query
NResults(a) == IF a = "single" THEN 3 ELSE 5

\* chunks per paper that chunk_text returns, for the papers of one analysis
Chunkings(a) ==
    IF a = "single"
    THEN {<<n>> : n \in {0, 1, 2}}
    ELSE {<<n>> : n \in {0, 1}} \cup {<<n, m>> : n \in {0, 1}, m \in {0, 1}}

\* the ids of the chunks of paper p: chunk_{j}, or paper_{p}_chunk_{j}
ChunkIds(p, n) == [j \in 1..n |-> [paper |-> p, chunk |-> j - 1]]

\* the ids in the order of the add loop
AllChunkIds(counts) ==
    IF Len(counts) = 1
    THEN ChunkIds(0, counts[1])
    ELSE ChunkIds(0, counts[1]) \o ChunkIds(1, counts[2])

StoredIds == { e.id : e \in collection }

not_an_vars == <<client_vars, cost_vars, chunk_vars, trim_vars, stat_vars, conc_vars, persist_vars, asm_vars, perf_vars>>

\* analyze_single_paper / analyze_context is called: results = [], the
\* papers are chunked
Analyze ==
    /\ an_pc = "idle"
    /\ analyses < MaxAnalyses
    /\ analyses' = analyses + 1
    /\ \E counts \in Chunkings(analyzer) : to_add' = AllChunkIds(counts)
    /\ results' = <<>>
    /\ question' = 0
    /\ an_pc' = "adding"
    /\ an_out' = NoAnalysis
    /\ UNCHANGED <<analyzer, collection, not_an_vars>>

\* self.collection.add(...) of the next chunk returns: the chunk is stored,
\* or an id already in the store is left as it is
AddChunk ==
    /\ an_pc = "adding"
    /\ to_add # <<>>
    /\ collection' =
         IF Head(to_add) \in StoredIds
         THEN collection
         ELSE collection \cup {[id |-> Head(to_add), analysis |-> analyses]}
    /\ to_add' = Tail(to_add)
    /\ UNCHANGED <<analyzer, an_pc, analyses, question, results, an_out,
                   not_an_vars>>

\* self.collection.add(...) raises: nothing catches it, the analysis ends
AddChunkRaises ==
    /\ an_pc = "adding"
    /\ to_add # <<>>
    /\ an_pc' = "idle"
    /\ an_out' = [kind |-> "raised", results |-> <<>>]
    /\ to_add' = <<>>
    /\ UNCHANGED <<analyzer, collection, analyses, question, results,
                   not_an_vars>>

\* all chunks are added: the question loop starts
StartQuestions ==
    /\ an_pc = "adding"
    /\ to_add = <<>>
    /\ an_pc' = "asking"
    /\ UNCHANGED <<analyzer, collection, analyses, to_add, question, results,
                   an_out, not_an_vars>>

\* what the try block of one question appends to results
\*   query raises                         -> the error entry
\*   no documents                         -> nothing
\*   documents, generate_response raises  -> the error entry
\*   documents, a response                -> the answer, with its error
QuestionOutcomes(q, matches) ==
    {<<[question |-> q, kind |-> "error", chunks_used |-> 0]>>}
    \cup (IF matches = 0
          THEN {<<>>}
          ELSE {<<[question |-> q, kind |-> k, chunks_used |-> matches]>> :
                    k \in {"answer", "answer_with_error"}})

\* one pass of the question loop
AskQuestion ==
    /\ an_pc = "asking"
    /\ question < NumQuestions(analyzer)
    /\ LET matches == Min(NResults(analyzer), Cardinality(collection))
       IN \E added \in QuestionOutcomes(question + 1, matches) :
            results' = results \o added
    /\ question' = question + 1
    /\ UNCHANGED <<analyzer, collection, an_pc, analyses, to_add, an_out,
                   not_an_vars>>

\* after the loop: self.setup_collection(), return results
AnalyzeReturn ==
    /\ an_pc = "asking"
    /\ question = NumQuestions(analyzer)
    /\ collection' = {}
    /\ an_pc' = "idle"
    /\ an_out' = [kind |-> "returned", results |-> results]
    /\ results' = <<>>
    /\ question' = 0
    /\ UNCHANGED <<analyzer, analyses, to_add, not_an_vars>>

AnalyzerInit ==
    /\ kind = "openai"
    /\ ClientStart
    /\ CostStart
    /\ ChunkStart
    /\ analyzer \in Analyzers
    /\ AnalyzerStart
    /\ TrimStart
    /\ StatStart
    /\ PerfStart
    /\ AssembleStart
    /\ PersistStart
    /\ ConcStart

AnalyzerNext ==
    \/ Analyze
    \/ AddChunk
    \/ AddChunkRaises
    \/ StartQuestions
    \/ AskQuestion
    \/ AnalyzeReturn

AnalyzerSpec == AnalyzerInit /\ [][AnalyzerNext]_vars

\* C16: whenever an analysis queries the store, the store holds only chunks
\* added by that analysis, whatever analyses ran before on the analyzer;
\* and after the reset at the end of an analysis the store is empty.
C16_NoStaleChunks ==
    /\ an_pc = "asking" => \A e \in collection : e.analysis = analyses
    /\ an_out.kind = "returned" /\ an_pc = "idle" => collection = {}

\* C17: the list an analysis returns has one entry per question, in
\* question order: a question whose query matched nothing is not dropped.
C17_OneEntryPerQuestion ==
    an_out.kind = "returned" =>
        /\ Len(an_out.results) = NumQuestions(analyzer)
        /\ \A i \in 1..Len(an_out.results) : an_out.results[i].question = i

----------------------------------------------------------------------------
(* Trimming the retrieved context to the token budget                       *)
(* (src/scripts/openai_vectorized_context_window_script.py,                 *)
(* src/scripts/vectorized_qa.py, src/scripts/openai_context_qa_script.py)   *)
(*                                                                         *)
(* A text is two runs of words, each word of a run taking len characters   *)
(* with its separator, cut after chars characters, with at most one full   *)
(* stop, at the end of word number period (0: none). The tokenizer counts  *)
(* one token for every word, a cut one included, so that the number of     *)
(* characters per token varies along the text.                             *)

\* MAX_TOKENS_PER_CHUNK of vectorized_qa.py
MAX_TOKENS_PER_CHUNK == 4000

\* words removed by one pass of the trimming loop
WordsPerPass == 100

Trimmers == {"window", "vectorized", "context_qa"}

\* model_context_length - 1000 of the models of 4096 and 8192 tokens, and
\* the smallest budget
Budgets == {0, 3096, 7192}

RunLengths == {0, 3000, 6000}
WordLengths == {2, 8}
Periods == {0, 2000, 5000}

CeilDiv(a, b) == (a + b - 1) \div b

TotalWords(b) == b[1].n + b[2].n

\* characters up to the end of word p, its separator included
Off(b, p) ==
    IF p <= b[1].n
    THEN p * b[1].len
    ELSE b[1].n * b[1].len + (p - b[1].n) * b[2].len

\* " ".join of the first p words
FirstWords(t, p) ==
    [blocks |-> t.blocks,
     chars |-> IF p = 0 THEN 0 ELSE Off(t.blocks, p) - 1,
     period |-> t.period]

Texts ==
    { FirstWords([blocks |-> <<[n |-> n1, len |-> l1], [n |-> n2, len |-> l2]>>,
                  chars |-> 0, period |-> p], n1 + n2) :
        n1 \in RunLengths, l1 \in WordLengths, n2 \in RunLengths,
        l2 \in WordLengths, p \in Periods }

\* words of the first k characters, a cut one included
WordsBegun(b, k) ==
    IF k <= b[1].n * b[1].len
    THEN CeilDiv(k, b[1].len)
    ELSE b[1].n + Min(b[2].n, CeilDiv(k - b[1].n * b[1].len, b[2].len))

\* count_tokens(text)
count_tokens(t) == WordsBegun(t.blocks, t.chars)

\* text[:k]
Prefix(t, k) == [t EXCEPT !.chars = Min(t.chars, k)]

\* text.rfind('.')
LastPeriod(t) ==
    IF t.period > 0 /\ t.period <= TotalWords(t.blocks)
       /\ Off(t.blocks, t.period) - 2 < t.chars
    THEN Off(t.blocks, t.period) - 2
    ELSE 0 - 1

\* vectorized_qa.py: context[:int(len(context) * MAX / count_tokens(context))]
TrimProportional(ctx) ==
    IF count_tokens(ctx) > MAX_TOKENS_PER_CHUNK
    THEN Prefix(ctx, (ctx.chars * MAX_TOKENS_PER_CHUNK) \div count_tokens(ctx))
    ELSE ctx

\* openai_context_qa_script.py: trim_text_to_token_limit(text, max_tokens)
trim_text_to_token_limit(text, limit) ==
    IF count_tokens(text) <= limit
    THEN text
    ELSE LET trimmed_text == FirstWords(text, limit)
             last_period == LastPeriod(trimmed_text)
         IN IF last_period * 10 > limit * 8
            THEN Prefix(trimmed_text, last_period + 1)
            ELSE trimmed_text

not_trim_vars == <<client_vars, cost_vars, chunk_vars, an_vars, stat_vars, conc_vars, persist_vars, asm_vars, perf_vars>>

\* openai_vectorized_context_window_script.py: the context is over the
\* budget and split into words, or it is used as it is
TrimWindow ==
    /\ trim_pc = "idle"
    /\ \E ctx \in Texts, budget \in Budgets :
        /\ context' = ctx
        /\ max_tokens' = budget
        /\ IF count_tokens(ctx) > budget
           THEN /\ trim_words' = TotalWords(ctx.blocks)
                /\ trimmed' = NoText
                /\ trim_pc' = "loop"
           ELSE /\ trim_words' = 0
                /\ trimmed' = ctx
                /\ trim_pc' = "done"
    /\ trimmer' = "window"
    /\ UNCHANGED not_trim_vars

\* one pass of `while count_tokens(' '.join(words)) > max_tokens`
WindowPass ==
    /\ trim_pc = "loop"
    /\ count_tokens(FirstWords(context, trim_words)) > max_tokens
    /\ trim_words' = Max(0, trim_words - WordsPerPass)
    /\ UNCHANGED <<trimmer, context, max_tokens, trimmed, trim_pc,
                   not_trim_vars>>

\* the loop is over: combined_context = ' '.join(words)
WindowJoin ==
    /\ trim_pc = "loop"
    /\ ~(count_tokens(FirstWords(context, trim_words)) > max_tokens)
    /\ trimmed' = FirstWords(context, trim_words)
    /\ trim_pc' = "done"
    /\ UNCHANGED <<trimmer, context, max_tokens, trim_words, not_trim_vars>>

\* vectorized_qa.py: the proportional cut to MAX_TOKENS_PER_CHUNK
TrimVectorized ==
    /\ trim_pc = "idle"
    /\ \E ctx \in Texts :
        /\ context' = ctx
        /\ trimmed' = TrimProportional(ctx)
    /\ max_tokens' = MAX_TOKENS_PER_CHUNK
    /\ trimmer' = "vectorized"
    /\ trim_pc' = "done"
    /\ UNCHANGED <<trim_words, not_trim_vars>>

\* openai_context_qa_script.py: trim_text_to_token_limit
TrimContextQA ==
    /\ trim_pc = "idle"
    /\ \E ctx \in Texts, budget \in Budgets :
        /\ context' = ctx
        /\ max_tokens' = budget
        /\ trimmed' = trim_text_to_token_limit(ctx, budget)
    /\ trimmer' = "context_qa"
    /\ trim_pc' = "done"
    /\ UNCHANGED <<trim_words, not_trim_vars>>

TrimInit ==
    /\ kind = "openai"
    /\ ClientStart
    /\ RestStart

TrimNext ==
    \/ TrimWindow
    \/ WindowPass
    \/ WindowJoin
    \/ TrimVectorized
    \/ TrimContextQA

TrimSpec == TrimInit /\ [][TrimNext]_vars

\* C18: the context put into the prompt by a trimming step has a token
\* count at or below the budget, whatever the retrieved text.
C18_TrimmedWithinBudget ==
    trim_pc = "done" => count_tokens(trimmed) <= max_tokens

\* the same for the steps that count the tokens of what they keep
TrimmedWithinBudgetCounted == trimmer # "vectorized" => C18_TrimmedWithinBudget

----------------------------------------------------------------------------
(* MetricsTracker (src/src/evaluation/metrics.py)                           *)
(*                                                                         *)
(* A number the statistics module returns is held as a fraction in lowest  *)
(* terms; a standard deviation is held as its square, the sample variance. *)
(* A computation that the statistics module or a division refuses is       *)
(* Undefined.                                                              *)

\* metrics in the log of a tracker exercised on its own
MaxMetrics == 5

Undefined == [num |-> 0, den |-> 0]

RECURSIVE GCD(_, _)
GCD(a, b) == IF b = 0 THEN a ELSE GCD(b, a % b)

\* n / d
Ratio(n, d) ==
    IF d = 0
    THEN Undefined
    ELSE [num |-> n \div GCD(n, d), den |-> d \div GCD(n, d)]

RECURSIVE Sum(_)
Sum(xs) == IF xs = <<>> THEN 0 ELSE Head(xs) + Sum(Tail(xs))

RECURSIVE SumSq(_)
SumSq(xs) == IF xs = <<>> THEN 0 ELSE Head(xs) * Head(xs) + SumSq(Tail(xs))

\* a mean that drops the fraction
MeanTruncated(xs) == Ratio(Sum(xs) \div Len(xs), 1)

\* statistics.mean
Mean(xs) == Ratio(Sum(xs), Len(xs))

\* sorted(xs)[k - 1]
Kth(xs, k) ==
    CHOOSE v \in {xs[i] : i \in DOMAIN xs} :
        /\ Cardinality({i \in DOMAIN xs : xs[i] < v}) < k
        /\ k <= Cardinality({i \in DOMAIN xs : xs[i] <= v})

\* statistics.median
Median(xs) ==
    IF xs = <<>>
    THEN Undefined
    ELSE IF Len(xs) % 2 = 1
         THEN Ratio(Kth(xs, (Len(xs) + 1) \div 2), 1)
         ELSE Ratio(Kth(xs, Len(xs) \div 2) + Kth(xs, Len(xs) \div 2 + 1), 2)

\* statistics.stdev, as its square
Stdev(xs) ==
    IF Len(xs) < 2
    THEN Undefined
    ELSE Ratio(Len(xs) * SumSq(xs) - Sum(xs) * Sum(xs),
               Len(xs) * (Len(xs) - 1))

\* min(), max()
MinOf(xs) == CHOOSE v \in {xs[i] : i \in DOMAIN xs} :
                \A i \in DOMAIN xs : v <= xs[i]
MaxOf(xs) == CHOOSE v \in {xs[i] : i \in DOMAIN xs} :
                \A i \in DOMAIN xs : v >= xs[i]

\* groups = defaultdict(list); for metric in self.metrics:
\*     groups[getattr(metric, group_by)].append(value(metric))
\* with the metric itself as the value when field is None
\* groups[group_value].append(value) on a defaultdict(list)
AppendTo(groups, group_value, value) ==
    [g \in DOMAIN groups \cup {group_value} |->
        IF g = group_value
        THEN Append(IF g \in DOMAIN groups THEN groups[g] ELSE <<>>, value)
        ELSE groups[g]]

RECURSIVE GroupsFrom(_, _, _, _, _)
GroupsFrom(groups, ms, i, group_by, field) ==
    IF i > Len(ms)
    THEN groups
    ELSE GroupsFrom(AppendTo(groups, ms[i][group_by],
                             IF field = None THEN ms[i] ELSE ms[i][field]),
                    ms, i + 1, group_by, field)

Groups(ms, group_by, field) == GroupsFrom(EmptyDict, ms, 1, group_by, field)

\* [m.field for m in self.metrics]
Column(ms, field) == [i \in DOMAIN ms |-> ms[i][field]]

\* {'overall': value}
Overall(value) == [g \in {"overall"} |-> value]

\* the metrics handed to add_metric: three of model A (times 1, 2, 3) and
\* two of model B (times 4, 6), over two interfaces, two of them failures
MetricInputs ==
    { [model |-> IF t <= 3 THEN "A" ELSE "B",
       interface_type |-> IF t % 2 = 1 THEN "api" ELSE "web",
       analysis_type |-> "qa",
       response_time |-> t,
       token_count |-> 10 * t,
       success |-> t \notin {3, 6},
       error |-> IF t = 3 THEN "timeout"
                 ELSE IF t = 6 THEN "rate_limit" ELSE None] :
        t \in {1, 2, 3, 4, 6} }

\* group_by of a getter: None, or a field of PerformanceMetric
GroupBys == {None, "model", "interface_type"}

\* (sum(successes) / len(successes)) * 100
SuccessRate(successes) ==
    Ratio(100 * Cardinality({i \in DOMAIN successes : successes[i]}),
          Len(successes))

\* MetricsTracker.get_success_rate
get_success_rate(ms, group_by) ==
    IF ms = <<>>
    THEN EmptyDict
    ELSE IF group_by # None
         THEN LET groups == Groups(ms, group_by, "success")
              IN [g \in DOMAIN groups |-> SuccessRate(groups[g])]
         ELSE Overall(SuccessRate(Column(ms, "success")))

\* MetricsTracker.get_average_response_time
get_average_response_time(ms, group_by) ==
    IF ms = <<>>
    THEN EmptyDict
    ELSE IF group_by # None
         THEN LET groups == Groups(ms, group_by, "response_time")
              IN [g \in DOMAIN groups |-> Mean(groups[g])]
         ELSE Overall(Mean(Column(ms, "response_time")))

\* calc_stats without the guard on the number of samples
calc_stats_unguarded(tokens) ==
    [mean |-> Mean(tokens),
     median |-> Median(tokens),
     min |-> MinOf(tokens),
     max |-> MaxOf(tokens),
     std_dev |-> Stdev(tokens)]

\* calc_stats of get_token_usage_stats
calc_stats(tokens) ==
    [mean |-> Mean(tokens),
     median |-> Median(tokens),
     min |-> MinOf(tokens),
     max |-> MaxOf(tokens),
     std_dev |-> IF Len(tokens) > 1 THEN Stdev(tokens) ELSE Ratio(0, 1)]

\* MetricsTracker.get_token_usage_stats
get_token_usage_stats(ms, group_by) ==
    IF ms = <<>>
    THEN EmptyDict
    ELSE IF group_by # None
         THEN LET groups == Groups(ms, group_by, "token_count")
              IN [g \in DOMAIN groups |-> calc_stats(groups[g])]
         ELSE Overall(calc_stats(Column(ms, "token_count")))

\* count_errors of get_error_distribution
count_errors(metrics_list) ==
    [e \in {metrics_list[i].error : i \in
                {j \in DOMAIN metrics_list : Truthy(metrics_list[j].error)}}
        |-> Cardinality({i \in DOMAIN metrics_list :
                            metrics_list[i].error = e})]

\* MetricsTracker.get_error_distribution
get_error_distribution(ms, group_by) ==
    IF ms = <<>>
    THEN EmptyDict
    ELSE IF group_by # None
         THEN LET groups == Groups(ms, group_by, None)
              IN [g \in DOMAIN groups |-> count_errors(groups[g])]
         ELSE Overall(count_errors(ms))

\* a getter came across a computation that raises
StatsRaise(rates, times, usage) ==
    \/ \E g \in DOMAIN rates : rates[g] = Undefined
    \/ \E g \in DOMAIN times : times[g] = Undefined
    \/ \E g \in DOMAIN usage :
        Undefined \in {usage[g].mean, usage[g].median, usage[g].std_dev}

not_stat_vars == <<client_vars, cost_vars, chunk_vars, an_vars, trim_vars, conc_vars, persist_vars, asm_vars, perf_vars>>

\* MetricsTracker.add_metric
AddMetric ==
    /\ Len(tracker_metrics) < MaxMetrics
    /\ \E metric \in MetricInputs :
        /\ tracker_metrics' = Append(tracker_metrics, metric)
        /\ metrics_seen' = [metrics_seen EXCEPT !.added = Append(@, metric)]
    /\ stats' = NoStats
    /\ UNCHANGED not_stat_vars

\* the caller reads the four statistics with one group_by
GetStatistics ==
    /\ \E group_by \in GroupBys :
        LET rates == get_success_rate(tracker_metrics, group_by)
            times == get_average_response_time(tracker_metrics, group_by)
            usage == get_token_usage_stats(tracker_metrics, group_by)
            errors == get_error_distribution(tracker_metrics, group_by)
        IN stats' =
            IF StatsRaise(rates, times, usage)
            THEN [NoStats EXCEPT !.group_by = group_by, !.read = TRUE,
                                 !.raised = TRUE]
            ELSE [group_by |-> group_by, read |-> TRUE, raised |-> FALSE,
                  success_rate |-> rates,
                  average_response_time |-> times,
                  token_usage_stats |-> usage,
                  error_distribution |-> errors]
    /\ UNCHANGED <<tracker_metrics, metrics_seen, not_stat_vars>>

StatInit ==
    /\ kind = "openai"
    /\ ClientStart
    /\ RestStart

StatNext ==
    \/ AddMetric
    \/ GetStatistics

StatSpec == StatInit /\ [][StatNext]_vars

\* the positions of the log whose field f has the value g
Members(f, g) == {i \in DOMAIN tracker_metrics : tracker_metrics[i][f] = g}

\* the values of field f present in the log
Present(f) == {tracker_metrics[i][f] : i \in DOMAIN tracker_metrics}

RECURSIVE Total(_, _)
Total(S, field) ==
    IF S = {}
    THEN 0
    ELSE LET i == CHOOSE j \in S : TRUE
         IN tracker_metrics[i][field] + Total(S \ {i}, field)

Grouped == stats.read /\ stats.group_by # None

\* C19: get_average_response_time(group_by=f) returns a map whose keys are
\* the distinct values of f in the log, a group of one sample included, and
\* whose value for a key is the arithmetic mean of the response times of
\* the group: value * count = sum.
C19_AverageByGroup ==
    Grouped =>
        /\ ~stats.raised
        /\ DOMAIN stats.average_response_time = Present(stats.group_by)
        /\ \A g \in DOMAIN stats.average_response_time :
            LET avg == stats.average_response_time[g]
                members == Members(stats.group_by, g)
            IN /\ avg.den > 0
               /\ avg.num * Cardinality(members)
                    = avg.den * Total(members, "response_time")

\* model A with times 1, 2, 3 and model B with times 4, 6 read by model:
\* {A: 2.0, B: 5.0}
C19_Witness ==
    /\ Grouped
    /\ stats.group_by = "model"
    /\ Column(tracker_metrics, "response_time") = <<1, 2, 3, 4, 6>>
    /\ Column(tracker_metrics, "model") = <<"A", "A", "A", "B", "B">>
    /\ stats.average_response_time =
         [g \in {"A", "B"} |-> IF g = "A" THEN [num |-> 2, den |-> 1]
                                          ELSE [num |-> 5, den |-> 1]]

\* C20: the grouped success rate, token-usage statistics and error
\* distribution hold every group of the log and never raise; a group of a
\* single sample has std_dev 0 and mean = median = min = max = the sample;
\* a group without errors is in the error distribution, with no error.
C20_EveryGroupReported ==
    Grouped =>
        /\ ~stats.raised
        /\ DOMAIN stats.success_rate = Present(stats.group_by)
        /\ DOMAIN stats.token_usage_stats = Present(stats.group_by)
        /\ DOMAIN stats.error_distribution = Present(stats.group_by)
        /\ \A g \in Present(stats.group_by) :
            LET members == Members(stats.group_by, g)
            IN /\ stats.success_rate[g].den > 0
               /\ \A i \in members :
                    members = {i} =>
                        LET sample == tracker_metrics[i].token_count
                        IN stats.token_usage_stats[g] =
                             [mean |-> [num |-> sample, den |-> 1],
                              median |-> [num |-> sample, den |-> 1],
                              min |-> sample,
                              max |-> sample,
                              std_dev |-> [num |-> 0, den |-> 1]]
               /\ (\A i \in members : ~Truthy(tracker_metrics[i].error))
                    => stats.error_distribution[g] = EmptyDict

\* read by model: model B has a single sample, which succeeded, and model A
\* has three samples, one of them a failure
C20_Witness ==
    /\ Grouped
    /\ stats.group_by = "model"
    /\ Cardinality(Members("model", "B")) = 1
    /\ Cardinality(Members("model", "A")) = 3
    /\ stats.token_usage_stats["B"].std_dev = [num |-> 0, den |-> 1]
    /\ stats.token_usage_stats["A"].std_dev.num > 0
    /\ stats.error_distribution["B"] = EmptyDict
    /\ stats.error_distribution["A"] # EmptyDict

----------------------------------------------------------------------------
(* Further properties of chunk_text                                         *)

\* the word indices of a chunk
WordsOf(c) == {w \in 0..(words - 1) : c.lo <= w /\ w < c.hi}

\* C30: for valid (size, overlap), every chunk that ingest.chunk_text or an
\* analyzer's chunk_text returns after the first holds a word index that no
\* earlier chunk holds.
C30_EveryChunkAddsWords ==
    chunk_pc = "returned" /\ ValidChunking /\ chunker \in {"ingest", "analyzer"} =>
        \A j \in 2..Len(chunks) :
            \E w \in WordsOf(chunks[j]) :
                \A k \in 1..(j - 1) : w \notin WordsOf(chunks[k])

----------------------------------------------------------------------------
(* The local counters under generate_response and reset_metrics             *)

\* BaseModelInterface.reset_metrics, called between two calls
ResetMetrics ==
    /\ pc = "idle"
    /\ metrics' = InitMetrics
    /\ UNCHANGED <<rest_vars, kind, now, last_request_time, pc, batch_vars,
                   call_vars, metrics_log, cost_log, history, request_times>>

\* single generate_response calls and reset_metrics calls on one client
CounterNext ==
    \/ GenerateResponse
    \/ RateLimit
    \/ ProviderCall
    \/ OpenAIBuild
    \/ GeminiBuild
    \/ OpenAIExcept
    \/ GeminiExcept
    \/ TrackMetrics
    \/ Unwind
    \/ ResetMetrics

CounterSpec == Init /\ [][CounterNext]_vars

\* C27: total_requests = successful_requests + total_errors in every
\* state, and a step that lowers a counter (reset_metrics) leaves all
\* counters at their initial zero values.
C27_CountersAddUp ==
    /\ [](metrics.total_requests
            = metrics.successful_requests + metrics.total_errors)
    /\ [][metrics'.total_requests < metrics.total_requests
            => metrics' = InitMetrics]_vars

\* two calls were tracked, a reset came between them, and the call after
\* the reset was a failure
C27_Witness ==
    /\ Len(metrics_log) = 2
    /\ metrics.total_requests = 1
    /\ metrics.total_errors = 1
    /\ metrics_log[1].success

-----------------------------------------------------------------------------
(* Two generate_response calls of one client in flight at once.  Coroutines
   of one event loop run one at a time and switch only where one of them
   suspends.  `await time.sleep(d)` blocks the whole loop for d and then
   raises, so _rate_limit has no suspension point; the one place a call
   suspends is the await of the provider request. *)

not_conc_vars == <<client_vars, cost_vars, chunk_vars, an_vars, trim_vars, stat_vars, persist_vars, asm_vars, perf_vars>>

\* a limiter that lets every call through
TooSoonNever(time_since_last_request) == FALSE

\* if time_since_last_request < self.min_request_interval
TooSoon(time_since_last_request) == time_since_last_request < MinRequestInterval

\* A coroutine is scheduled and runs generate_response from its entry to its
\* first suspension: _rate_limit, then (Gemini) _count_tokens, then the
\* provider request, whose await suspends it.  A call that comes too soon
\* blocks the loop for the rest of the interval and gets the TypeError of
\* `await None`: the OpenAI client then blocks for the backoff delay and the
\* TypeError of that await leaves generate_response; the Gemini client turns
\* the error into a failure response and tracks it.  Neither issues a request.
TaskRun(t) ==
    /\ tasks[t].pc = "idle"
    /\ tasks[1].calls + tasks[2].calls < MaxTaskCalls
    /\ \E idle \in IdleTicks :
        LET current_time == loop_time + idle
            time_since_last_request == current_time - shared_last_request_time
        IN  IF TooSoon(time_since_last_request)
            THEN LET waited == current_time + (MinRequestInterval - time_since_last_request) IN
                 /\ loop_time' = IF kind = "openai" THEN waited + RetryDelay(1) ELSE waited
                 /\ tasks' = [tasks EXCEPT ![t] =
                        [pc |-> "idle", calls |-> @.calls + 1,
                         raised |-> IF kind = "openai" THEN @.raised + 1 ELSE @.raised]]
                 /\ tracked' = IF kind = "gemini" THEN tracked + 1 ELSE tracked
                 /\ UNCHANGED <<shared_last_request_time, issued>>
            ELSE /\ loop_time' = current_time
                 /\ shared_last_request_time' = current_time
                 /\ issued' = Append(issued, current_time)
                 /\ tasks' = [tasks EXCEPT ![t] =
                        [pc |-> "awaiting", calls |-> @.calls + 1, raised |-> @.raised]]
                 /\ UNCHANGED tracked
    /\ UNCHANGED not_conc_vars

\* The provider request of a suspended coroutine finishes and the coroutine
\* runs to the end of generate_response: a response is built and tracked; an
\* exception (or, for OpenAI, a response without usage) is the first failed
\* attempt, after which the OpenAI client blocks for the backoff delay and
\* raises while the Gemini client tracks a failure response.
TaskResume(t) ==
    /\ tasks[t].pc = "awaiting"
    /\ \E d \in CallTicks, o \in {x.kind : x \in OutcomesOf(kind)} :
        LET fails == o # "ok" IN
        /\ loop_time' = IF fails /\ kind = "openai"
                        THEN loop_time + d + RetryDelay(1) ELSE loop_time + d
        /\ tasks' = [tasks EXCEPT ![t] =
               [pc |-> "idle", calls |-> @.calls,
                raised |-> IF fails /\ kind = "openai" THEN @.raised + 1 ELSE @.raised]]
        /\ tracked' = IF fails /\ kind = "openai" THEN tracked ELSE tracked + 1
    /\ UNCHANGED <<shared_last_request_time, issued>>
    /\ UNCHANGED not_conc_vars

ConcNext == \E t \in Tasks : TaskRun(t) \/ TaskResume(t)

ConcSpec == Init /\ [][ConcNext]_vars

\* C26: with two generate_response calls of one client in flight at once,
\* interleaving where they suspend, the provider requests still start at
\* least min_request_interval apart.
C26_ConcurrentRequestsSpaced ==
    \A i \in 1..Len(issued) : \A j \in 1..Len(issued) :
        i < j => issued[j] - issued[i] >= MinRequestInterval

\* two calls suspended in their provider requests at the same time
C26_Witness ==
    /\ \E a \in Tasks : \E b \in Tasks :
        a # b /\ tasks[a].pc = "awaiting" /\ tasks[b].pc = "awaiting"
    /\ Len(issued) >= 2

-----------------------------------------------------------------------------
(* Resetting the trackers.  A MetricsTracker and a CostTracker are separate
   objects without shared state; a behaviour of ResetSpec exercises one of
   them and leaves the other as constructed. *)

\* the records of a log whose model is m
OfModel(records, m) == SelectSeq(records, LAMBDA r : r.model = m)

\* CostTracker.get_total_cost
get_total_cost(records) == Sum(Column(records, "cost"))

\* CostTracker.get_cost_by_model
get_cost_by_model(records) ==
    [m \in {records[i].model : i \in DOMAIN records} |->
        get_total_cost(OfModel(records, m))]

\* CostTracker.get_usage_summary; the record log of the model carries no
\* durations and no interface or analysis types, so the entries computed
\* from them are left out, and so are the two averages, which are quotients
\* of entries that are kept
GetUsageSummary ==
    /\ usage_summary' =
         [read |-> TRUE,
          total_cost |-> get_total_cost(usage_records),
          total_tokens |-> Sum(Column(usage_records, "total_tokens")),
          total_requests |-> Len(usage_records),
          total_errors |-> Cardinality({i \in DOMAIN usage_records :
                                          usage_records[i].error # None}),
          costs_by_model |-> get_cost_by_model(usage_records)]
    /\ UNCHANGED <<usage_records, cost_result, usage_seen, not_cost_vars>>

\* CostTracker.reset
CostTrackerReset ==
    /\ usage_records' = <<>>
    /\ usage_summary' = NoSummary
    /\ usage_seen' = [reset |-> TRUE, added |-> <<>>]
    /\ UNCHANGED <<cost_result, not_cost_vars>>

\* a reset that keeps the oldest record
MetricsTrackerResetKeeping ==
    /\ tracker_metrics' = IF tracker_metrics = <<>> THEN <<>>
                        ELSE <<Head(tracker_metrics)>>
    /\ stats' = NoStats
    /\ metrics_seen' = [reset |-> TRUE, added |-> <<>>]
    /\ UNCHANGED not_stat_vars

\* MetricsTracker.reset
MetricsTrackerReset ==
    /\ tracker_metrics' = <<>>
    /\ stats' = NoStats
    /\ metrics_seen' = [reset |-> TRUE, added |-> <<>>]
    /\ UNCHANGED not_stat_vars

\* the CostTracker is as constructed
CostTrackerUnused ==
    usage_records = <<>> /\ usage_summary = NoSummary /\ usage_seen = NothingSeen

\* the MetricsTracker is as constructed
MetricsTrackerUnused ==
    tracker_metrics = <<>> /\ stats = NoStats /\ metrics_seen = NothingSeen

\* the MetricsTracker of ResetSpec holds no more records than its CostTracker
MetricsLogShort == Len(tracker_metrics) < MaxRecords

ResetNext ==
    \/ CostTrackerUnused /\ MetricsLogShort /\ AddMetric
    \/ CostTrackerUnused /\ GetStatistics
    \/ CostTrackerUnused /\ MetricsTrackerReset
    \/ MetricsTrackerUnused /\ AddUsageRecord
    \/ MetricsTrackerUnused /\ GetUsageSummary
    \/ MetricsTrackerUnused /\ CostTrackerReset

ResetSpec == StatInit /\ [][ResetNext]_vars

\* the add_usage_record calls since the last reset, as the records they make
RecordsSeen ==
    [i \in DOMAIN usage_seen.added |->
        LET call == usage_seen.added[i] IN
        [model |-> call.model, prompt_tokens |-> call.prompt_tokens,
         completion_tokens |-> call.completion_tokens,
         total_tokens |-> call.prompt_tokens + call.completion_tokens,
         cost |-> CalculateCost(call.model, call.prompt_tokens,
                                call.completion_tokens),
         error |-> call.error]]

\* C21: reset empties the log of a MetricsTracker or CostTracker and the
\* tracker stays usable: the log holds exactly the records added since the
\* last reset, in the order they were added, and every aggregate read is
\* the aggregate of those records only.
C21_ResetStartsAfresh ==
    /\ tracker_metrics = metrics_seen.added
    /\ usage_records = RecordsSeen
    /\ stats.read /\ ~stats.raised =>
        /\ stats.success_rate = get_success_rate(metrics_seen.added, stats.group_by)
        /\ stats.average_response_time =
              get_average_response_time(metrics_seen.added, stats.group_by)
        /\ stats.token_usage_stats =
              get_token_usage_stats(metrics_seen.added, stats.group_by)
        /\ stats.error_distribution =
              get_error_distribution(metrics_seen.added, stats.group_by)
    /\ usage_summary.read =>
        /\ usage_summary.total_requests = Len(usage_seen.added)
        /\ usage_summary.total_cost = Sum(Column(RecordsSeen, "cost"))
        /\ usage_summary.total_tokens = Sum(Column(RecordsSeen, "total_tokens"))
        /\ usage_summary.total_errors =
              Cardinality({i \in DOMAIN usage_seen.added :
                             usage_seen.added[i].error # None})
        /\ \A m \in DOMAIN usage_summary.costs_by_model :
              usage_summary.costs_by_model[m] =
                 Sum(Column(OfModel(RecordsSeen, m), "cost"))

\* a MetricsTracker that was reset, was then given two metrics and had its
\* statistics read
C21_Witness ==
    /\ metrics_seen.reset
    /\ Len(metrics_seen.added) = 2
    /\ stats.read /\ ~stats.raised
    /\ stats.group_by = None

-----------------------------------------------------------------------------
(* Saving and loading the trackers, and the performance summary.  A metric
   carries the fields the summary and the file depend on; its timestamp and
   response_length are strings and integers like the fields kept.  The two
   trackers share no state: a behaviour of PersistSpec exercises one of
   them and leaves the other as constructed. *)

\* None in an Optional[int] field (context_length, chunks_used)
Absent == -1

\* metadata of a metric: None, a dict of strings and numbers ("plain": what
\* the OpenAI client builds), or a dict that holds an object of the provider
\* library ("objects": the safety_ratings the Gemini client stores)
Metadatas == {None, "plain", "objects"}

\* context_length and chunks_used as callers of add_metric give them
VectorFields ==
    { [context_length |-> Absent, chunks_used |-> Absent],
      [context_length |-> Absent, chunks_used |-> 3],
      [context_length |-> 0, chunks_used |-> 3],
      [context_length |-> 1200, chunks_used |-> 3] }

\* the metrics handed to add_metric: a success of model A with either kind
\* of metadata, or a failure of model B, which has no metadata
VectorizedMetricInputs ==
    { [model |-> IF ok THEN "A" ELSE "B",
       interface_type |-> "api",
       analysis_type |-> "vector_qa",
       response_time |-> IF ok THEN 1 ELSE 6,
       token_count |-> IF ok THEN 10 ELSE 0,
       success |-> ok,
       error |-> IF ok THEN None ELSE "timeout",
       context_length |-> v.context_length,
       chunks_used |-> v.chunks_used,
       metadata |-> md] :
        ok \in BOOLEAN, v \in VectorFields, md \in Metadatas }
    \ { m \in [model : {"A", "B"}, interface_type : {"api"},
               analysis_type : {"vector_qa"}, response_time : {1, 6},
               token_count : {0, 10}, success : BOOLEAN,
               error : {None, "timeout"}, context_length : {Absent, 0, 1200},
               chunks_used : {Absent, 3}, metadata : Metadatas] :
            (m.success /\ m.metadata = None) \/ (~m.success /\ m.metadata # None) }

\* JSON values
JsonNull == [json |-> "null"]
JsonString(s) == [json |-> "string", value |-> s]
JsonNumber(n) == [json |-> "number", value |-> n]
JsonBool(b) == [json |-> "bool", value |-> b]
JsonObject(d) == [json |-> "object", value |-> d]
\* a value json.dump raises TypeError for
NotSerializable == [json |-> "not serializable"]

\* json.dump of an Optional[str], an Optional[int] and a metadata dict
DumpOptStr(v) == IF v = None THEN JsonNull ELSE JsonString(v)
DumpOptInt(v) == IF v = Absent THEN JsonNull ELSE JsonNumber(v)
DumpMetadata(v) ==
    IF v = None THEN JsonNull
    ELSE IF v = "plain" THEN JsonObject(v) ELSE NotSerializable

\* json.load of the same
LoadOptStr(j) == IF j.json = "null" THEN None ELSE j.value
LoadOptInt(j) == IF j.json = "null" THEN Absent ELSE j.value

\* asdict(metric) as json.dump writes it
DumpMetric(m) ==
    [model |-> JsonString(m.model),
     interface_type |-> JsonString(m.interface_type),
     analysis_type |-> JsonString(m.analysis_type),
     response_time |-> JsonNumber(m.response_time),
     token_count |-> JsonNumber(m.token_count),
     success |-> JsonBool(m.success),
     error |-> DumpOptStr(m.error),
     context_length |-> DumpOptInt(m.context_length),
     chunks_used |-> DumpOptInt(m.chunks_used),
     metadata |-> DumpMetadata(m.metadata)]

\* PerformanceMetric(**metric) of a json.load-ed object
LoadMetric(j) ==
    [model |-> j.model.value,
     interface_type |-> j.interface_type.value,
     analysis_type |-> j.analysis_type.value,
     response_time |-> j.response_time.value,
     token_count |-> j.token_count.value,
     success |-> j.success.value,
     error |-> LoadOptStr(j.error),
     context_length |-> LoadOptInt(j.context_length),
     chunks_used |-> LoadOptInt(j.chunks_used),
     metadata |-> LoadOptStr(j.metadata)]

\* asdict(record) as json.dump writes it
DumpRecord(r) ==
    [model |-> JsonString(r.model),
     prompt_tokens |-> JsonNumber(r.prompt_tokens),
     completion_tokens |-> JsonNumber(r.completion_tokens),
     total_tokens |-> JsonNumber(r.total_tokens),
     cost |-> JsonNumber(r.cost),
     error |-> DumpOptStr(r.error)]

\* UsageRecord(**record) of a json.load-ed object
LoadRecord(j) ==
    [model |-> j.model.value,
     prompt_tokens |-> j.prompt_tokens.value,
     completion_tokens |-> j.completion_tokens.value,
     total_tokens |-> j.total_tokens.value,
     cost |-> j.cost.value,
     error |-> LoadOptStr(j.error)]

\* MetricsTracker.get_vectorized_metrics; statistics.mean of no values
\* raises StatisticsError, which Undefined stands for
get_vectorized_metrics(ms) ==
    LET vectorized_metrics == SelectSeq(ms, LAMBDA m : m.chunks_used # Absent)
        with_context == SelectSeq(vectorized_metrics,
                            LAMBDA m : m.context_length # Absent
                                       /\ m.context_length # 0)
        last(k) == CHOOSE i \in DOMAIN vectorized_metrics :
                      /\ vectorized_metrics[i].chunks_used = k
                      /\ \A j \in DOMAIN vectorized_metrics :
                            vectorized_metrics[j].chunks_used = k => j <= i
    IN  IF vectorized_metrics = <<>>
        THEN [empty |-> TRUE, average_chunks_used |-> Ratio(0, 1),
              average_context_length |-> Ratio(0, 1),
              chunk_usage_distribution |-> <<>>]
        ELSE [empty |-> FALSE,
              average_chunks_used |-> Mean(Column(vectorized_metrics, "chunks_used")),
              average_context_length |-> Mean(Column(with_context, "context_length")),
              chunk_usage_distribution |->
                 [k \in {vectorized_metrics[i].chunks_used :
                            i \in DOMAIN vectorized_metrics} |->
                     Cardinality({j \in DOMAIN vectorized_metrics :
                        vectorized_metrics[j] = vectorized_metrics[last(k)]})]]

\* MetricsTracker.get_performance_summary
get_performance_summary(ms) ==
    [total_requests |-> Len(ms),
     success_rates |->
        [overall |-> get_success_rate(ms, None),
         by_model |-> get_success_rate(ms, "model"),
         by_interface |-> get_success_rate(ms, "interface_type"),
         by_analysis |-> get_success_rate(ms, "analysis_type")],
     response_times |->
        [overall |-> get_average_response_time(ms, None),
         by_model |-> get_average_response_time(ms, "model"),
         by_interface |-> get_average_response_time(ms, "interface_type")],
     token_usage |->
        [overall |-> get_token_usage_stats(ms, None),
         by_model |-> get_token_usage_stats(ms, "model")],
     errors |-> get_error_distribution(ms, "model"),
     vectorized_metrics |-> get_vectorized_metrics(ms)]

\* get_performance_summary raises instead of returning this summary
SummaryRaises(summary) ==
    \/ StatsRaise(summary.success_rates.overall, summary.response_times.overall,
                  summary.token_usage.overall)
    \/ StatsRaise(summary.success_rates.by_model, summary.response_times.by_model,
                  summary.token_usage.by_model)
    \/ StatsRaise(summary.success_rates.by_interface,
                  summary.response_times.by_interface, EmptyDict)
    \/ StatsRaise(summary.success_rates.by_analysis, EmptyDict, EmptyDict)
    \/ Undefined \in {summary.vectorized_metrics.average_chunks_used,
                      summary.vectorized_metrics.average_context_length}

not_persist_vars == <<client_vars, cost_vars, chunk_vars, an_vars, trim_vars, stat_vars, conc_vars, asm_vars, perf_vars>>

\* MetricsTracker.add_metric with the fields of the vectorized approaches
AddVectorizedMetric ==
    /\ Len(tracker_metrics) < MaxRecords
    /\ \E metric \in VectorizedMetricInputs :
        /\ tracker_metrics' = Append(tracker_metrics, metric)
        /\ metrics_seen' = [metrics_seen EXCEPT !.added = Append(@, metric)]
    /\ stats' = NoStats
    /\ UNCHANGED <<not_stat_vars>>

\* the caller reads tracker.get_performance_summary()
GetPerformanceSummary ==
    /\ io_out' = [op |-> "summary",
                  raised |-> SummaryRaises(get_performance_summary(tracker_metrics))]
    /\ UNCHANGED <<metrics_file, records_file, saved, not_persist_vars>>

\* MetricsTracker.save_metrics: open(output_path, 'w') empties the file, the
\* summary is computed while the argument of json.dump is built, and
\* json.dump writes until it meets a value it cannot serialize
SaveMetrics ==
    LET metrics_dict == [i \in DOMAIN tracker_metrics |-> DumpMetric(tracker_metrics[i])]
        raised == \/ SummaryRaises(get_performance_summary(tracker_metrics))
                  \/ \E i \in DOMAIN metrics_dict :
                        metrics_dict[i].metadata = NotSerializable
    IN  /\ metrics_file' = IF raised
                           THEN [exists |-> TRUE, complete |-> FALSE, items |-> <<>>]
                           ELSE [exists |-> TRUE, complete |-> TRUE,
                                 items |-> metrics_dict]
        /\ saved' = [saved EXCEPT !.metrics_called = TRUE,
                                  !.metrics = tracker_metrics]
        /\ io_out' = [op |-> "save_metrics", raised |-> raised]
        /\ UNCHANGED <<records_file, not_persist_vars>>

\* MetricsTracker.load_metrics: open raises FileNotFoundError without a file
\* and json.load raises JSONDecodeError for a file that holds no document
LoadMetrics ==
    /\ IF metrics_file.exists /\ metrics_file.complete
       THEN /\ tracker_metrics' = [i \in DOMAIN metrics_file.items |->
                                      LoadMetric(metrics_file.items[i])]
            /\ stats' = NoStats
            /\ metrics_seen' = [metrics_seen EXCEPT !.added = tracker_metrics']
            /\ io_out' = [op |-> "load_metrics", raised |-> FALSE]
       ELSE /\ io_out' = [op |-> "load_metrics", raised |-> TRUE]
            /\ UNCHANGED <<tracker_metrics, stats, metrics_seen>>
    /\ UNCHANGED <<metrics_file, records_file, saved>>
    /\ UNCHANGED <<client_vars, cost_vars, chunk_vars, an_vars, trim_vars, conc_vars,
                   asm_vars, perf_vars>>

\* CostTracker.save_records
SaveRecords ==
    LET records_dict == [i \in DOMAIN usage_records |-> DumpRecord(usage_records[i])]
    IN  /\ records_file' = [exists |-> TRUE, complete |-> TRUE,
                            items |-> records_dict]
        /\ saved' = [saved EXCEPT !.records_called = TRUE,
                                  !.records = usage_records]
        /\ io_out' = [op |-> "save_records", raised |-> FALSE]
        /\ UNCHANGED <<metrics_file, not_persist_vars>>

\* CostTracker.load_records
LoadRecords ==
    /\ IF records_file.exists /\ records_file.complete
       THEN /\ usage_records' = [i \in DOMAIN records_file.items |->
                                    LoadRecord(records_file.items[i])]
            /\ usage_summary' = NoSummary
            /\ usage_seen' = [usage_seen EXCEPT !.added =
                  [i \in DOMAIN usage_records' |->
                      [model |-> usage_records'[i].model,
                       prompt_tokens |-> usage_records'[i].prompt_tokens,
                       completion_tokens |-> usage_records'[i].completion_tokens,
                       error |-> usage_records'[i].error]]]
            /\ io_out' = [op |-> "load_records", raised |-> FALSE]
       ELSE /\ io_out' = [op |-> "load_records", raised |-> TRUE]
            /\ UNCHANGED <<usage_records, usage_summary, usage_seen>>
    /\ UNCHANGED <<cost_result, metrics_file, records_file, saved>>
    /\ UNCHANGED <<client_vars, chunk_vars, an_vars, trim_vars, stat_vars, conc_vars,
                   asm_vars, perf_vars>>

\* nothing was done with the CostTracker or its file
CostSideUnused ==
    /\ CostTrackerUnused
    /\ records_file = NoFile
    /\ io_out.op \notin {"save_records", "load_records"}

\* nothing was done with the MetricsTracker or its file
MetricsSideUnused ==
    /\ MetricsTrackerUnused
    /\ metrics_file = NoFile
    /\ io_out.op \notin {"summary", "save_metrics", "load_metrics"}

PersistNext ==
    \/ CostSideUnused /\ AddVectorizedMetric
    \/ CostSideUnused /\ GetPerformanceSummary
    \/ CostSideUnused /\ SaveMetrics
    \/ CostSideUnused /\ LoadMetrics
    \/ MetricsSideUnused /\ AddUsageRecord
    \/ MetricsSideUnused /\ SaveRecords
    \/ MetricsSideUnused /\ LoadRecords

PersistSpec == StatInit /\ [][PersistNext]_vars

\* C22: a load that follows a save of the same tracker succeeds and leaves
\* the in-memory log equal to the log as it was when saved, record by
\* record, field by field, in the same order.
C22_SaveLoadRoundTrips ==
    /\ [][LoadMetrics /\ saved.metrics_called =>
            ~io_out'.raised /\ tracker_metrics' = saved.metrics]_vars
    /\ [][LoadRecords /\ saved.records_called =>
            ~io_out'.raised /\ usage_records' = saved.records]_vars

\* C28: get_performance_summary and save_metrics return without error for
\* every non-empty log, and a save that fails leaves the log as it was.
C28_SummaryAndSaveSucceed ==
    /\ [][(GetPerformanceSummary \/ SaveMetrics) /\ tracker_metrics # <<>>
            => ~io_out'.raised]_vars
    /\ [][SaveMetrics /\ io_out'.raised
            => tracker_metrics' = tracker_metrics]_vars

-----------------------------------------------------------------------------
(* The models the clients accept and the price table *)

\* the keys of OpenAIInterface.MODEL_CONFIGS
OpenAI_MODEL_CONFIGS == {"gpt-4", "gpt-4-turbo-preview"}

\* the keys of GeminiInterface.MODEL_CONFIGS
Gemini_MODEL_CONFIGS == {"gemini-1.5-pro", "gemini-2.0-flash"}

\* C29: every model a client constructor accepts has an entry in
\* MODEL_COSTS, so a record of such a model with positive token usage has
\* a positive cost.
C29_SupportedModelsPriced ==
    \A i \in DOMAIN usage_records :
        LET record == usage_records[i] IN
        record.model \in OpenAI_MODEL_CONFIGS \cup Gemini_MODEL_CONFIGS =>
            /\ record.model \in DOMAIN MODEL_COSTS
            /\ record.total_tokens > 0 => record.cost > 0

-----------------------------------------------------------------------------
(* The sentence-boundary cut of trim_text_to_token_limit *)

\* the step cut the text back to its last period
SentenceCutTaken ==
    /\ trimmer = "context_qa"
    /\ trim_pc = "done"
    /\ count_tokens(context) > max_tokens
    /\ trimmed # FirstWords(context, max_tokens)

\* C25: the cut is moved back to the last sentence boundary only when the
\* text kept is still at least 80% of the budget, counted in tokens.
C25_SentenceCutKeepsMost ==
    SentenceCutTaken => count_tokens(trimmed) * 10 >= max_tokens * 8

-----------------------------------------------------------------------------
(* The cross-paper context of VectorContextQA.analyze_context and of
   openai_vectorized_context_window_script.py, which share the code.  A
   dict is the sequence of its items in insertion order, which is the order
   Python iterates it in; a text is the sequence of its lines, a chunk
   being one line. *)

\* chunks a query returns at most (the code asks for n_results=5)
MaxResults == 3

\* the chunks in the store, each with the paper_id of its metadata
StoredChunks ==
    { [paper_id |-> p, doc |-> <<p, n>>] : p \in {"A", "B", "C"}, n \in {1, 2} }

\* ranked results: chunks of the store, none twice
RankedResults ==
    { r \in UNION { [1..n -> StoredChunks] : n \in 0..MaxResults } :
        \A i \in DOMAIN r : \A j \in DOMAIN r : r[i] = r[j] => i = j }

\* lines of the context
BlankLine == [line |-> "blank", paper_id |-> None, doc |-> <<>>]
HeaderLine(paper_id) == [line |-> "header", paper_id |-> paper_id, doc |-> <<>>]
DocLine(doc) == [line |-> "doc", paper_id |-> None, doc |-> doc]

\* the position of key k in dict d, 0 if it is not a key
KeyIndex(d, k) ==
    IF \E i \in DOMAIN d : d[i].key = k
    THEN CHOOSE i \in DOMAIN d : d[i].key = k
    ELSE 0

\* a grouping that puts a new paper in front of the ones seen before
AddToPaperInFront(d, paper_id, doc) ==
    IF KeyIndex(d, paper_id) = 0
    THEN <<[key |-> paper_id, docs |-> <<doc>>]>> \o d
    ELSE [d EXCEPT ![KeyIndex(d, paper_id)].docs = Append(@, doc)]

\* if paper_id not in paper_contexts: paper_contexts[paper_id] = []
\* paper_contexts[paper_id].append(doc)
AddToPaper(d, paper_id, doc) ==
    IF KeyIndex(d, paper_id) = 0
    THEN Append(d, [key |-> paper_id, docs |-> <<doc>>])
    ELSE [d EXCEPT ![KeyIndex(d, paper_id)].docs = Append(@, doc)]

\* f"\n=== From {paper_id} ===\n" + "\n".join(docs)
PaperContext(item) ==
    <<BlankLine, HeaderLine(item.key)>>
    \o [i \in DOMAIN item.docs |-> DocLine(item.docs[i])]

\* "\n\n".join(contexts)
RECURSIVE JoinContexts(_)
JoinContexts(contexts) ==
    IF contexts = <<>> THEN <<>>
    ELSE IF Len(contexts) = 1 THEN Head(contexts)
    ELSE Head(contexts) \o <<BlankLine>> \o JoinContexts(Tail(contexts))

not_asm_vars == <<client_vars, cost_vars, chunk_vars, an_vars, trim_vars, stat_vars, conc_vars, persist_vars, perf_vars>>

\* query_results = collection.query(query_texts=[question], n_results=5)
\* and the test that there are documents
QueryStore ==
    /\ asm_pc = "idle"
    /\ \E r \in RankedResults :
        /\ query_results' = r
        /\ asm_pc' = IF r # <<>> THEN "grouping" ELSE "done"
    /\ next_result' = 1
    /\ paper_contexts' = <<>>
    /\ combined_context' = <<>>
    /\ UNCHANGED not_asm_vars

\* one pass of `for doc, metadata in zip(documents, metadatas)`
GroupResult ==
    /\ asm_pc = "grouping"
    /\ next_result <= Len(query_results)
    /\ paper_contexts' = AddToPaper(paper_contexts,
                                    query_results[next_result].paper_id,
                                    query_results[next_result].doc)
    /\ next_result' = next_result + 1
    /\ UNCHANGED <<query_results, combined_context, asm_pc, not_asm_vars>>

\* the loop is over: contexts is built and joined
CombineContexts ==
    /\ asm_pc = "grouping"
    /\ next_result > Len(query_results)
    /\ combined_context' =
          JoinContexts([i \in DOMAIN paper_contexts |->
                            PaperContext(paper_contexts[i])])
    /\ asm_pc' = "done"
    /\ UNCHANGED <<query_results, next_result, paper_contexts, not_asm_vars>>

\* the next question
NextQuestion ==
    /\ asm_pc = "done"
    /\ asm_pc' = "idle"
    /\ UNCHANGED <<query_results, next_result, paper_contexts, combined_context,
                   not_asm_vars>>

AssembleNext == QueryStore \/ GroupResult \/ CombineContexts \/ NextQuestion

AssembleSpec == StatInit /\ [][AssembleNext]_vars

\* positions of the lines of one kind
LinesOf(what) == {i \in DOMAIN combined_context : combined_context[i].line = what}

\* the header a line stands under
HeaderOver(i) ==
    CHOOSE h \in LinesOf("header") :
        h < i /\ \A g \in LinesOf("header") : g < i => g <= h

\* where a paper is first seen in the ranked results
FirstSeen(p) ==
    CHOOSE i \in DOMAIN query_results :
        /\ query_results[i].paper_id = p
        /\ \A j \in DOMAIN query_results : query_results[j].paper_id = p => i <= j

\* the line of a returned chunk
LineOfResult(i) ==
    CHOOSE l \in LinesOf("doc") : combined_context[l].doc = query_results[i].doc

\* C24: the assembled context has one header per paper of the results, the
\* headers in the order the papers are first seen in the ranking; every
\* returned chunk is on exactly one line, under the header of its paper, and
\* the chunks of a paper keep their result order.
C24_GroupedByPaper ==
    asm_pc = "done" /\ query_results # <<>> =>
        /\ \A h \in LinesOf("header") : \A g \in LinesOf("header") :
              /\ combined_context[h].paper_id = combined_context[g].paper_id => h = g
              /\ \E i \in DOMAIN query_results :
                    query_results[i].paper_id = combined_context[h].paper_id
              /\ h < g => FirstSeen(combined_context[h].paper_id)
                            < FirstSeen(combined_context[g].paper_id)
        /\ \A i \in DOMAIN query_results :
              /\ Cardinality({l \in LinesOf("doc") :
                    combined_context[l].doc = query_results[i].doc}) = 1
              /\ \E h \in LinesOf("header") : h < LineOfResult(i)
              /\ combined_context[HeaderOver(LineOfResult(i))].paper_id
                    = query_results[i].paper_id
        /\ Cardinality(LinesOf("doc")) = Len(query_results)
        /\ \A i \in DOMAIN query_results : \A j \in DOMAIN query_results :
              i < j /\ query_results[i].paper_id = query_results[j].paper_id
                 => LineOfResult(i) < LineOfResult(j)

\* a context of two papers, the better ranked paper with two chunks that
\* are apart in the ranking
C24_Witness ==
    /\ asm_pc = "done"
    /\ Len(query_results) = 3
    /\ query_results[1].paper_id = query_results[3].paper_id
    /\ query_results[2].paper_id # query_results[1].paper_id
    /\ Cardinality(LinesOf("header")) = 2

-----------------------------------------------------------------------------
(* PerformanceAnalyzer (src/src/evaluation/performance_analysis.py) over a
   MetricsTracker and a CostTracker without records.  A DataFrame is the
   set of its rows; pandas and scipy are libraries whose calls return or
   raise. *)

\* the rows of PerformanceAnalyzer.compare_models: one for every pair of a
\* model and an interface that has metrics (calculate_model_performance
\* returns None for the others); cost_per_request is 0 without cost records
compare_models(ms) ==
    { [model_name |-> m, interface_type |-> f,
       success_rate |->
          SuccessRate(Column(SelectSeq(ms, LAMBDA x :
              x.model = m /\ x.interface_type = f), "success")),
       avg_response_time |->
          Mean(Column(SelectSeq(ms, LAMBDA x :
              x.model = m /\ x.interface_type = f), "response_time")),
       cost_per_request |-> 0,
       sample_size |->
          Len(SelectSeq(ms, LAMBDA x : x.model = m /\ x.interface_type = f))] :
        m \in {ms[i].model : i \in DOMAIN ms},
        f \in {ms[i].interface_type : i \in DOMAIN ms} }
    \ { row \in [model_name : {ms[i].model : i \in DOMAIN ms},
                 interface_type : {ms[i].interface_type : i \in DOMAIN ms},
                 success_rate : {Undefined}, avg_response_time : {Undefined},
                 cost_per_request : {0}, sample_size : {0}] : TRUE }

\* the groups of df.groupby('model_name')
ModelGroups(df) == {row.model_name : row \in df}

\* What statistical_analysis can do with the frame df.  A frame without
\* rows has no columns and groupby('model_name') raises KeyError.  With one
\* group, stats.f_oneway gets one sample: depending on the scipy release it
\* raises TypeError or returns nan.  With two groups or more it returns the
\* statistic.
AnalysisOutcomes(df) ==
    IF df = {}
    THEN {[raised |-> TRUE, result |-> "KeyError"]}
    ELSE IF Cardinality(ModelGroups(df)) < 2
         THEN {[raised |-> TRUE, result |-> "TypeError"],
               [raised |-> FALSE, result |-> "nan"]}
         ELSE {[raised |-> FALSE, result |-> "anova"]}

not_perf_vars == <<client_vars, cost_vars, chunk_vars, an_vars, trim_vars, stat_vars, conc_vars, persist_vars, asm_vars>>

\* PerformanceAnalyzer.statistical_analysis
StatisticalAnalysis ==
    /\ LET df == compare_models(tracker_metrics) IN
       \E out \in AnalysisOutcomes(df) :
          analysis_out' = [called |-> "statistical_analysis",
                           models |-> Cardinality(ModelGroups(df)),
                           raised |-> out.raised, result |-> out.result]
    /\ UNCHANGED not_perf_vars

\* PerformanceAnalyzer.create_performance_report: the comparison as records,
\* then statistical_analysis, whose exception it does not catch, then the
\* interface analysis and the summary metrics of a frame that has rows
CreatePerformanceReport ==
    /\ LET df == compare_models(tracker_metrics) IN
       \E out \in AnalysisOutcomes(df) :
          analysis_out' = [called |-> "create_performance_report",
                           models |-> Cardinality(ModelGroups(df)),
                           raised |-> out.raised, result |-> out.result]
    /\ UNCHANGED not_perf_vars

PerfNext ==
    \/ MetricsLogShort /\ AddMetric
    \/ StatisticalAnalysis
    \/ CreatePerformanceReport

PerfSpec == StatInit /\ [][PerfNext]_vars

\* C23: with metrics of fewer than two models, statistical_analysis and
\* create_performance_report do not fail: they skip the comparison and
\* report insufficient data.
C23_ComparisonNeedsTwoModels ==
    analysis_out.called # "none" /\ analysis_out.models < 2 =>
        ~analysis_out.raised /\ analysis_out.result = "insufficient data"

====
